---- MODULE Spec2Model ----
(***************************************************************************)
(* AutofishMinecraft: the volume monitor (trigger debounce and rolling     *)
(* baseline), the auto-calibrator, the inactivity monitor, the keys that   *)
(* block the actions, the temporary pause and its loop, the click threads  *)
(* and their window lookup, the humanized-delay engine with its profile,   *)
(* pattern streaks, session state and click positions, the cancellation    *)
(* of a calibration racing with a sample, the cached process id of the     *)
(* target, the game keys and the foreground test, the profile read from    *)
(* the settings, and the counting of a click in the statistics.            *)
(*                                                                         *)
(* Units.  Normalized volumes and thresholds are in tenths (9.0 -> 90).    *)
(* Monitor time is in ticks of 0.05 s, the sleep of one monitor iteration  *)
(* (2.0 s -> 40).  trigger_count is kept in halves (1 -> 2, 0.5 -> 1).     *)
(* baseline_volume is the exact quotient num/den.  Delays of the engine    *)
(* are in units of 0.0001 s (0.1 s -> 1000).                               *)
(***************************************************************************)
EXTENDS Integers, Sequences, FiniteSets, TLC

VARIABLES
    now,                  \* time.time(), in ticks
    volume_history,       \* AppState.volume_history, deque(maxlen=10)
    baseline_volume,      \* AppState.baseline_volume, as [num, den]
    trigger_count,        \* AppState.trigger_count, in halves
    last_trigger_time,    \* AppState.last_trigger_time
    current_volume_level, \* AppState.current_volume_level
    threshold,            \* AppState.detection.threshold
    in_flight,            \* start times of the running double-click threads
    is_calibrating,       \* AutoCalibrator.is_calibrating
    calibration_data,     \* AutoCalibrator.calibration_data
    peak_values,          \* AutoCalibrator.peak_values
    start_time,           \* AutoCalibrator.start_time
    delivered,            \* arguments the completion callback was called with
    callback,             \* AutoCalibrator.callback is set
    calls,                \* history: the direct calls of the calibrator's methods
    is_paused,            \* AppState.is_paused
    last_activity_time,   \* AppState.last_activity_time
    inactivity_trigger_count, \* AppState.inactivity.trigger_count
    current_delay,        \* AppState.inactivity.current_delay, in ticks
    single_flight,        \* start times of the running single-click threads
    checks,               \* history: the last inactivity checks
    iterations,           \* history: number of monitor iterations so far
    log,                  \* history: every sample read, and whether calibrating
    fires,                \* history: iteration and time of every trigger
    trace,                \* history: the last trigger checks
    min_delay,            \* AppState.detection.min_delay
    max_delay,            \* AppState.detection.max_delay
    skill_improvement_rate, \* HumanLikeRandomizer.skill_improvement_rate
    profile,              \* HumanLikeRandomizer.profile, fields in 1e-4
    action_count,         \* HumanLikeRandomizer.action_count
    streak_counter,       \* HumanLikeRandomizer.streak_counter
    last_pattern_type,    \* HumanLikeRandomizer.last_pattern_type
    fatigue_accumulator,  \* HumanLikeRandomizer.fatigue_accumulator, in 1e-6
    action_quality,       \* HumanLikeRandomizer.action_quality, in 1e-4
    delay_memory,         \* HumanLikeRandomizer.delay_memory
    last_delays,          \* HumanLikeRandomizer.last_delays, deque(maxlen=20)
    pc,                   \* where each action thread is
    pattern,              \* the local variable pattern of each thread
    delay,                \* the local variable delay of each thread
    session,              \* history: resets, and the calls returned before the last
    last_click,           \* the last result of get_click_position_variation
    streak_targets,       \* history: the target means used in the current streak
    is_completely_disabled, \* AppState.is_completely_disabled
    is_inventory_open,    \* AppState.is_inventory_open
    is_chat_open,         \* AppState.is_chat_open
    temp_pause_remaining, \* AppState.temp_pause_remaining, in ticks
    temp_pause_start,     \* AppState.temp_pause_start
    pause_pc,             \* where the temporary-pause loop is
    elapsed,              \* the local variable elapsed of the temporary-pause loop
    key_pc,               \* where the handler of the temporary-pause key is
    pause_call,           \* history: time of the last start_temp_pause call
    notifications,        \* history: times of the pause-end notifications
    click_counter,        \* AppState.click_counter
    clicks_sent,          \* history: number of right clicks posted to the window
    sample_pc,            \* where the monitor thread is in add_sample
    sample_arg,           \* the arguments of the add_sample call in progress
    cancel_pc,            \* where the UI thread is in cancel
    cancel_mark,          \* history: results delivered when cancel returned
    app_pid,              \* AppState.app_pid, 0 for None
    target_pid,           \* the process id the target runs under
    is_app_in_foreground, \* AppState.is_app_in_foreground
    launched,             \* history: number of action threads started
    returned,             \* history: arguments and result of every delay call
    total_clicks,         \* StatsManager.stats['total_clicks']
    patterns_used,        \* StatsManager.stats['patterns_used']
    hourly_distribution,  \* StatsManager.stats['hourly_distribution']
    record_pc,            \* where each thread is in _record_click
    record_arg,           \* the pattern and the hour of each thread's call
    record_reg,           \* the value each thread has read and not yet written back
    recorded              \* history: number of calls of _record_click that returned

monitorVars == <<volume_history, baseline_volume, trigger_count,
                 last_trigger_time, current_volume_level, threshold, in_flight>>
calVars == <<is_calibrating, calibration_data, peak_values, start_time, delivered,
             callback, calls>>
idleVars == <<is_paused, last_activity_time, inactivity_trigger_count,
              current_delay, single_flight, checks>>
histVars == <<iterations, log, fires, trace>>
settingVars == <<min_delay, max_delay, skill_improvement_rate, profile>>
engineVars == <<action_count, streak_counter, last_pattern_type,
                fatigue_accumulator, action_quality, delay_memory, last_delays>>
threadVars == <<pc, pattern, delay, launched, returned, session, last_click,
                streak_targets>>
behaviorVars == <<settingVars, engineVars, threadVars>>
pauseVars == <<is_completely_disabled, is_inventory_open, is_chat_open,
               temp_pause_remaining, temp_pause_start, pause_pc, elapsed,
               key_pc, pause_call, notifications>>
clickVars == <<click_counter, clicks_sent>>
raceVars == <<sample_pc, sample_arg, cancel_pc, cancel_mark>>
pidVars == <<app_pid, target_pid, is_app_in_foreground>>
recordVars == <<total_clicks, patterns_used, hourly_distribution, record_pc,
                record_arg, record_reg, recorded>>
vars == <<now, monitorVars, calVars, idleVars, histVars, behaviorVars,
          pauseVars, clickVars, raceVars, pidVars, recordVars>>

----------------------------------------------------------------------------
(* Bounds *)

MaxIterations == 4      \* monitor iterations in one behaviour
TraceLen == 4           \* trigger checks remembered in trace
MaxCalIterations == 3   \* monitor iterations in one calibration behaviour

(* Program constants *)

HistoryCap == 10            \* deque(maxlen=10)
CooldownPeriod == 40        \* DetectionParams.cooldown_period = 2.0 s
DefaultThreshold == 80      \* DetectionParams.threshold = 8.0
CalibrationDuration == 600  \* AutoCalibrator(duration=30)
MinThreshold == 40          \* max(4.0, ...)
MaxThreshold == 90          \* min(9.0, ...)
PeakFloor == 50             \* normalized > 5.0
MinActionTicks == 25        \* delay2 >= 0.5 s and post_action_delay 0.75 s
InactivityDelays == {100, 180}  \* random.uniform(base_delay - 2, base_delay + 2)
InactivitySleep == 20       \* time.sleep(1) of the inactivity loop

PauseTicks == 300           \* start_temp_pause(15), max(0, 15 - elapsed)
PauseSleep == 10            \* time.sleep(0.5) of the temporary-pause loop

\* Faulty variant: only the pause key blocks the actions
is_action_allowed_PauseKeyOnly == ~is_paused

\* AppState.is_action_allowed
is_action_allowed ==
    /\ ~is_completely_disabled
    /\ ~is_paused
    /\ temp_pause_remaining = 0
    /\ ~is_inventory_open
    /\ ~is_chat_open

NoValue == -1               \* callback(None): no threshold

----------------------------------------------------------------------------
(* Arithmetic helpers *)

RECURSIVE SumSeq(_)
SumSeq(s) == IF s = <<>> THEN 0 ELSE Head(s) + SumSeq(Tail(s))

RECURSIVE SumSq(_)
SumSq(s) == IF s = <<>> THEN 0 ELSE Head(s) * Head(s) + SumSq(Tail(s))

RECURSIVE MinSeq(_)
MinSeq(s) == IF Len(s) = 1 THEN s[1]
             ELSE LET m == MinSeq(Tail(s)) IN IF Head(s) < m THEN Head(s) ELSE m

Max2(a, b) == IF a > b THEN a ELSE b
Min2(a, b) == IF a < b THEN a ELSE b

\* round(num/den) to the nearest integer, ties to even (num >= 0, den > 0)
RoundRatio(num, den) ==
    LET q == num \div den
        r == num % den
    IN  IF 2 * r < den THEN q
        ELSE IF 2 * r > den THEN q + 1
        ELSE IF q % 2 = 0 THEN q ELSE q + 1

\* The last k elements of s, all of them when s is shorter
LastOf(s, k) == IF Len(s) <= k THEN s ELSE SubSeq(s, Len(s) - k + 1, Len(s))

\* collections.deque(maxlen=cap).append(x)
DequeAppend(d, x, cap) ==
    IF Len(d) >= cap THEN Append(Tail(d), x) ELSE Append(d, x)

----------------------------------------------------------------------------
(* AutoCalibrator *)

\* round(min_peak * 0.85, 1)
PeakThreshold(peaks) == RoundRatio(MinSeq(peaks) * 85, 100)

\* round(mean + 1.5 * std, 1): the tenth t nearest to (S + 1.5*sqrt(D))/N,
\* where S is the sum, N the count and D = N*sum(x^2) - S^2.
StatThreshold(data) ==
    LET N == Len(data)
        S == SumSeq(data)
        D == N * SumSq(data) - S * S
        A(t) == (2 * t - 1) * N - 2 * S
        Below(t) == A(t) <= 0 \/ A(t) * A(t) <= 9 * D
        t0 == CHOOSE t \in 0..200 : Below(t) /\ ~Below(t + 1)
        tie == A(t0) >= 0 /\ A(t0) * A(t0) = 9 * D
    IN  IF tie /\ t0 % 2 = 1 THEN t0 - 1 ELSE t0

\* Faulty variant: the lower limit of the clamp is forgotten
ClampThreshold_NoFloor(t) == Min2(MaxThreshold, t)

\* max(4.0, min(9.0, threshold))
ClampThreshold(t) == Max2(MinThreshold, Min2(MaxThreshold, t))

\* Faulty variant: without data the lowest threshold is delivered
FinishResult_FloorOnEmpty(data, peaks) ==
    IF data = <<>> THEN MinThreshold
    ELSE IF Len(peaks) >= 2 THEN ClampThreshold(PeakThreshold(peaks))
    ELSE ClampThreshold(StatThreshold(data))

\* Faulty variant: a single peak is enough for the peak formula
FinishResult_OnePeak(data, peaks) ==
    IF data = <<>> THEN NoValue
    ELSE IF Len(peaks) >= 1 THEN ClampThreshold(PeakThreshold(peaks))
    ELSE ClampThreshold(StatThreshold(data))

\* The value finish_calibration passes to the callback
FinishResult(data, peaks) ==
    IF data = <<>> THEN NoValue
    ELSE IF Len(peaks) >= 2 THEN ClampThreshold(PeakThreshold(peaks))
    ELSE ClampThreshold(StatThreshold(data))

\* AutoFishApp.on_calibration_complete: a truthy result becomes the threshold
ThresholdAfter(result, old) ==
    IF result = NoValue \/ result = 0 THEN old ELSE result

----------------------------------------------------------------------------
(* HumanLikeRandomizer *)

MaxCalls == 2               \* action threads started in one behaviour
MaxResets == 1              \* calls of reset_session in one behaviour
MaxSelects == 1             \* direct calls of select_behavior_pattern
MaxSessionCalls == 1        \* calls of get_humanized_delay late in a session

MemoryCap == 50             \* len(delay_memory) > 50: pop(0)
LastDelaysCap == 20         \* deque(maxlen=20)
FatigueCap == 500000        \* min(0.5, fatigue_accumulator)
FatigueStep == 500          \* 0.001 * fatigue_rate, fatigue_rate = 0.5
QualityStart == 5000        \* action_quality = 0.5
QualityCap == 10000         \* min(1.0, action_quality + rate)
DefaultMinDelay == 1000     \* DetectionParams.min_delay = 0.1
DefaultMaxDelay == 15000    \* DetectionParams.max_delay = 1.5

Patterns == {"steady", "accelerating", "decelerating", "erratic", "rhythmic",
             "tired"}
NoPattern == "none"
ThreadIds == {"volume", "inactivity", "test"}

\* Outcomes of the random draws
\* Faulty variant: the streak is drawn from a wider range
StreakDraws_Wide == {2, 16}

StreakDraws == {3, 15}              \* random.randint(3, 15)
SkillRates == {1, 5}                \* random.uniform(0.0001, 0.0005)
MinJitter == {0, 400, 800}          \* random.uniform(0, 0.08)
MaxJitter == {0, 500, 1000}         \* random.uniform(0, 0.1)

\* (min_delay, max_delay) settings: the defaults and two narrow ranges the
\* delay sliders (resolution 0.01 s, max > min) allow
DelayPairs == {<<1000, 15000>>, <<1000, 1100>>, <<300, 500>>}

\* The delay before the limits are applied: a log-normal or uniform draw
\* scaled by the memory blend, the noise, the circadian, skill, reaction,
\* fatigue and concentration factors, plus the micro-variation, the
\* distraction and the context factors.  Any real value can result; these are
\* values below, between and above the limits.
RawDelays(mn, mx) ==
    {-50, mn \div 2, (mn * 9) \div 10, (mn + mx) \div 2, (mx * 11) \div 10, 2 * mx}

\* The limits applied to the delay raw, for every outcome of the draws
BoundedDelays(raw, mn, mx) ==
    IF raw < mn
    THEN {mn + u : u \in MinJitter} \cup {Max2((mn * 85) \div 100, raw)}
    ELSE IF raw > mx
    THEN {mx - u : u \in MaxJitter} \cup {Min2((mx * 115) \div 100, raw)}
    ELSE {raw}

\* HumanProfile: the defaults of the dataclass
DefaultProfile ==
    [reaction_speed |-> 10000, consistency |-> 5000, fatigue_rate |-> 5000,
     concentration_level |-> 6000, rhythm_variation |-> 5000]

\* Faulty variant: the lower limit is forgotten
Clamp_NoLower(lo, hi, v) == Min2(hi, v)

\* max(lo, min(hi, v))
Clamp(lo, hi, v) == Max2(lo, Min2(hi, v))

\* HumanProfile.generate_random: g is the draw of random.gauss(1.0, 0.2), c, f
\* and k those of betavariate(2, 2), betavariate(2, 3) and betavariate(3, 2)
GeneratedProfile(g, c, f, k) ==
    LET consistency == IF g > 12000 THEN (c * 8) \div 10 ELSE c
        rhythm      == 10000 - k \div 2
    IN  [reaction_speed      |-> Clamp(3000, 20000, g),
         consistency         |-> Clamp(1000, 10000, consistency),
         fatigue_rate        |-> Clamp(0, 10000, f),
         concentration_level |-> Clamp(0, 10000, k),
         rhythm_variation    |-> Clamp(1000, 10000, rhythm)]

\* get_humanized_delay: 100 times the target mean of the accelerating and of
\* the decelerating pattern, progress = min(1.0, streak_counter / 10); the
\* other patterns have no target that depends on the streak
TargetMean(p, streak, mn, mx) ==
    IF p = "accelerating" THEN 100 * mx - (mx - mn) * 7 * Min2(10, streak)
    ELSE IF p = "decelerating" THEN 100 * mn + (mx - mn) * 7 * Min2(10, streak)
    ELSE NoValue

\* Faulty variant: the accumulator is not capped
FatigueAfter_NoCap(f) == f + FatigueStep

\* get_fatigue_factor: the accumulator after one call
FatigueAfter(f) == Min2(FatigueCap, f + FatigueStep)

\* Faulty variant: action_quality is not capped
QualityAfter_NoCap(q, rate) == q + rate

\* apply_skill_progression: action_quality after one call
QualityAfter(q, rate) == Min2(QualityCap, q + rate)

\* No call of get_click_position_variation yet
NoClick == [n |-> 0, rect |-> <<0, 0, 0, 0>>, x |-> NoValue, y |-> NoValue]

Margin == 5                 \* margin = 5

\* Faulty variant: the upper limit of the clamp is forgotten
ClampCoord_NoUpper(v, dim) == Max2(Margin, v)

\* max(margin, min(dimension - margin, new))
ClampCoord(v, dim) == Max2(Margin, Min2(dim - Margin, v))

\* delay_memory.append(delay), pop(0) beyond 50 entries
MemoryAfter(mem, d) ==
    LET m == Append(mem, d) IN IF Len(m) > MemoryCap THEN Tail(m) ELSE m

\* HumanLikeRandomizer.__init__ and the delay settings
EngineInit(mn, mx, rate) ==
    /\ min_delay = mn
    /\ max_delay = mx
    /\ skill_improvement_rate = rate
    /\ profile = DefaultProfile
    /\ action_count = 0
    /\ streak_counter = 0
    /\ last_pattern_type = NoPattern
    /\ fatigue_accumulator = 0
    /\ action_quality = QualityStart
    /\ delay_memory = <<>>
    /\ last_delays = <<>>
    /\ pc = [t \in ThreadIds |-> "idle"]
    /\ pattern = [t \in ThreadIds |-> NoPattern]
    /\ delay = [t \in ThreadIds |-> 0]
    /\ launched = 0
    /\ returned = <<>>
    /\ session = [resets |-> 0, mark |-> 0, selects |-> 0]
    /\ last_click = NoClick
    /\ streak_targets = <<>>

\* threading.Thread(target=perform_..._right_click).start(): the volume
\* monitor, the inactivity monitor or the test key starts an action thread
Launch(t) ==
    /\ pc[t] = "idle"
    /\ launched < MaxCalls
    /\ pc' = [pc EXCEPT ![t] = "started"]
    /\ launched' = launched + 1
    /\ UNCHANGED <<now, monitorVars, calVars, idleVars, pauseVars, raceVars, pidVars, recordVars, clickVars, histVars, settingVars,
                   engineVars, pattern, delay, returned, session, last_click,
                   streak_targets>>

\* get_humanized_delay, first part: count the action and select or continue
\* the pattern (select_behavior_pattern evaluates get_fatigue_factor once)
EnterDelay(t) ==
    /\ pc[t] = "started"
    /\ pc' = [pc EXCEPT ![t] = "in_delay"]
    /\ action_count' = action_count + 1
    /\ IF streak_counter <= 0
       THEN \E selected \in Patterns :
               /\ fatigue_accumulator' = FatigueAfter(fatigue_accumulator)
               /\ pattern' = [pattern EXCEPT ![t] = selected]
               /\ IF selected # last_pattern_type
                  THEN /\ streak_counter' \in StreakDraws
                       /\ last_pattern_type' = selected
                       /\ streak_targets' = <<>>
                  ELSE UNCHANGED <<streak_counter, last_pattern_type,
                                   streak_targets>>
       ELSE /\ pattern' = [pattern EXCEPT ![t] = last_pattern_type]
            /\ streak_counter' = streak_counter - 1
            /\ UNCHANGED <<last_pattern_type, fatigue_accumulator,
                           streak_targets>>
    /\ UNCHANGED <<now, monitorVars, calVars, idleVars, pauseVars, raceVars, pidVars, recordVars, clickVars, histVars, settingVars,
                   action_quality, delay_memory, last_delays, delay, launched,
                   returned, session, last_click>>

\* get_humanized_delay, second part: compute the delay, apply the limits and
\* store the result in delay_memory
ExitDelay(t) ==
    /\ pc[t] = "in_delay"
    /\ pc' = [pc EXCEPT ![t] = "recording"]
    /\ action_quality' = QualityAfter(action_quality, skill_improvement_rate)
    /\ fatigue_accumulator' = FatigueAfter(fatigue_accumulator)
    /\ \E raw \in RawDelays(min_delay, max_delay) :
         \E d \in BoundedDelays(raw, min_delay, max_delay) :
            /\ delay_memory' = MemoryAfter(delay_memory, d)
            /\ delay' = [delay EXCEPT ![t] = d]
    /\ streak_targets' = Append(streak_targets,
                                TargetMean(pattern[t], streak_counter,
                                           min_delay, max_delay))
    /\ UNCHANGED <<now, monitorVars, calVars, idleVars, pauseVars, raceVars, pidVars, recordVars, clickVars, histVars, settingVars,
                   action_count, streak_counter, last_pattern_type, last_delays,
                   pattern, launched, returned, session, last_click>>

\* get_humanized_delay, last part: last_delays.append(delay) and return delay
ReturnDelay(t) ==
    /\ pc[t] = "recording"
    /\ pc' = [pc EXCEPT ![t] = "sleeping"]
    /\ last_delays' = DequeAppend(last_delays, delay[t], LastDelaysCap)
    /\ returned' = Append(returned, [min |-> min_delay, max |-> max_delay,
                                     delay |-> delay[t]])
    /\ delay' = [delay EXCEPT ![t] = 0]
    /\ UNCHANGED <<now, monitorVars, calVars, idleVars, pauseVars, raceVars, pidVars, recordVars, clickVars, histVars, settingVars,
                   action_count, streak_counter, last_pattern_type,
                   fatigue_accumulator, action_quality, delay_memory, pattern,
                   launched, session, last_click,
                   streak_targets>>

\* No call of get_humanized_delay is in progress
Quiescent == \A t \in ThreadIds : pc[t] \notin {"in_delay", "recording"}

\* No action thread is running
AllIdle == \A t \in ThreadIds : pc[t] = "idle"

\* select_behavior_pattern() called on its own
SelectPattern ==
    /\ AllIdle
    /\ session.selects < MaxSelects
    /\ session' = [session EXCEPT !.selects = @ + 1]
    /\ fatigue_accumulator' = FatigueAfter(fatigue_accumulator)
    /\ \E selected \in Patterns :
          IF selected # last_pattern_type
          THEN /\ streak_counter' \in StreakDraws
               /\ last_pattern_type' = selected
               /\ streak_targets' = <<>>
          ELSE UNCHANGED <<streak_counter, last_pattern_type, streak_targets>>
    /\ UNCHANGED <<now, monitorVars, calVars, idleVars, pauseVars, raceVars, pidVars, recordVars, clickVars, histVars, settingVars,
                   action_count, action_quality, delay_memory, last_delays,
                   pc, pattern, delay, launched, returned, last_click>>

\* reset_session()
ResetSession ==
    /\ AllIdle
    /\ session.resets < MaxResets
    /\ action_count' = 0
    /\ fatigue_accumulator' = 0
    /\ last_delays' = <<>>
    /\ delay_memory' = <<>>
    /\ action_quality' = QualityStart
    /\ session' = [session EXCEPT !.resets = @ + 1, !.mark = Len(returned)]
    /\ UNCHANGED <<now, monitorVars, calVars, idleVars, pauseVars, raceVars, pidVars, recordVars, clickVars, histVars, settingVars,
                   streak_counter, last_pattern_type, pc, pattern, delay,
                   launched, returned, last_click,
                   streak_targets>>

\* get_click_position_variation(bx, by, rect): int(base + deviation), clamped;
\* ox and oy are the truncated deviations, n tells the first click from the
\* second
ClickVariation(rect, bx, by, ox, oy, n) ==
    LET width  == rect[3] - rect[1]
        height == rect[4] - rect[2]
    IN  /\ AllIdle
        /\ last_click' = [n |-> n, rect |-> rect,
                          x |-> ClampCoord(bx + ox, width),
                          y |-> ClampCoord(by + oy, height)]
        /\ UNCHANGED <<now, monitorVars, calVars, idleVars, pauseVars, raceVars, pidVars, recordVars, clickVars, histVars, settingVars,
                       engineVars, pc, pattern, delay, launched, returned,
                       session,
                   streak_targets>>

\* ClickHandler._get_click_position(hwnd): the base is the centre of the
\* client rectangle
FirstClick(rect, ox, oy) ==
    ClickVariation(rect, (rect[3] - rect[1]) \div 2, (rect[4] - rect[2]) \div 2,
                   ox, oy, 1)

\* ClickHandler._get_click_position(hwnd, x, y): the base is the position of
\* the first click
SecondClick(ox, oy) ==
    /\ last_click.n = 1
    /\ ClickVariation(last_click.rect, last_click.x, last_click.y, ox, oy, 2)

\* The rest of the action thread: the sleep and the clicks
Complete(t) ==
    /\ pc[t] = "sleeping"
    /\ pc' = [pc EXCEPT ![t] = "idle"]
    /\ UNCHANGED <<now, monitorVars, calVars, idleVars, pauseVars, raceVars, pidVars, recordVars, clickVars, histVars, settingVars,
                   engineVars, pattern, delay, launched, returned, session,
                   last_click,
                   streak_targets>>

----------------------------------------------------------------------------
(* VolumeMonitor *)

\* Faulty variant: a full history drops its newest entry instead of its oldest
HistoryAfter_DropNewest(h, n) ==
    IF Len(h) >= HistoryCap THEN Append(SubSeq(h, 1, Len(h) - 1), n)
    ELSE Append(h, n)

\* _update_baseline: the history after the append
HistoryAfter(h, n) == DequeAppend(h, n, HistoryCap)

\* _update_baseline: the baseline computed from the appended history
BaselineAfter(h, n) ==
    LET h2 == HistoryAfter(h, n)
    IN  IF Len(h2) < 2 THEN [num |-> n, den |-> 1]
        ELSE [num |-> SumSeq(h2), den |-> Len(h2)]

\* normalized > threshold and normalized > baseline_volume * 1.2
VolumeCondition(n, thr, b) == n > thr /\ 10 * n * b.den > 12 * b.num

\* Faulty variant: the cooldown is not waited for
CooldownElapsed_Any(t, ltt) == t - ltt > 0

\* current_time - last_trigger_time > cooldown
CooldownElapsed(t, ltt) == t - ltt > CooldownPeriod

\* _handle_calibration: normalized > baseline_volume * 1.5 and normalized > 5.0
IsPeak(n, b) == 10 * n * b.den > 15 * b.num /\ n > PeakFloor

\* Faulty variant: a miss resets the count instead of lowering it by 0.5
CountAfter_ResetOnMiss(tc, volOk, coolOk) ==
    IF volOk
    THEN IF coolOk
         THEN IF tc + 2 >= 4 THEN 0 ELSE tc + 2
         ELSE tc
    ELSE 0

\* Faulty variant: a miss lowers the count by 1 without the test for a positive count
CountAfter_FullStep(tc, volOk, coolOk) ==
    IF volOk
    THEN IF coolOk
         THEN IF tc + 2 >= 4 THEN 0 ELSE tc + 2
         ELSE tc
    ELSE tc - 2

\* _check_trigger: trigger_count after the check
CountAfter(tc, volOk, coolOk) ==
    IF volOk
    THEN IF coolOk
         THEN IF tc + 2 >= 4 THEN 0 ELSE tc + 2
         ELSE tc
    ELSE IF tc > 0 THEN tc - 1 ELSE tc

\* Faulty variant: one hit is enough to fire
Fires_SingleHit(tc, volOk, coolOk) == volOk /\ coolOk /\ tc + 2 >= 2

\* Faulty variant: three hits are needed to fire
Fires_ThreeHits(tc, volOk, coolOk) == volOk /\ coolOk /\ tc + 2 >= 6

\* _check_trigger: whether the check starts an action thread
Fires(tc, volOk, coolOk) == volOk /\ coolOk /\ tc + 2 >= 4

\* AutoCalibrator.finish_calibration on the collected data, and the callback
\* on_calibration_complete when one is set
FinishCalibration(data, peaks) ==
    /\ is_calibrating' = FALSE
    /\ IF callback
       THEN /\ delivered' = Append(delivered, FinishResult(data, peaks))
            /\ threshold' = ThresholdAfter(FinishResult(data, peaks), threshold)
       ELSE UNCHANGED <<delivered, threshold>>

\* AutoCalibrator.add_sample while calibrating, at time t
AddSample(n, isPeak, t) ==
    LET data  == Append(calibration_data, n)
        peaks == IF isPeak THEN Append(peak_values, n) ELSE peak_values
    IN  /\ calibration_data' = data
        /\ peak_values' = peaks
        /\ UNCHANGED <<start_time, callback>>
        /\ IF t - start_time > CalibrationDuration
           THEN FinishCalibration(data, peaks)
           ELSE UNCHANGED <<is_calibrating, delivered, threshold>>

\* AppState.reset_inactivity at time t
ResetInactivity(t) ==
    /\ last_activity_time' = t
    /\ inactivity_trigger_count' = 0
    /\ current_delay' \in InactivityDelays

\* _update_baseline followed by _check_trigger, at time t
UpdateAndCheck(n, t) ==
    LET b      == BaselineAfter(volume_history, n)
        volOk  == VolumeCondition(n, threshold, b)
        coolOk == CooldownElapsed(t, last_trigger_time)
        fire   == Fires(trigger_count, volOk, coolOk)
    IN  /\ volume_history' = HistoryAfter(volume_history, n)
        /\ baseline_volume' = b
        /\ trigger_count' = CountAfter(trigger_count, volOk, coolOk)
        /\ last_trigger_time' = IF fire THEN t ELSE last_trigger_time
        /\ in_flight' = IF fire THEN Append(in_flight, t) ELSE in_flight
        /\ IF fire
           THEN \* the thread perform_double_right_click starts
                ResetInactivity(t)
           ELSE UNCHANGED <<last_activity_time, inactivity_trigger_count,
                           current_delay>>
        /\ UNCHANGED <<is_paused, pauseVars, raceVars, pidVars, recordVars, clickVars, single_flight, checks>>
        /\ log' = Append(log, [v |-> n, cal |-> FALSE])
        /\ fires' = IF Len(in_flight') > Len(in_flight)
                    THEN Append(fires, [iter |-> iterations + 1, t |-> t])
                    ELSE fires
        /\ trace' = DequeAppend(trace,
                        [vol |-> n > threshold
                                 /\ 10 * n * baseline_volume'.den
                                      > 12 * baseline_volume'.num,
                         cool |-> t - last_trigger_time > CooldownPeriod,
                         pre |-> trigger_count, post |-> trigger_count',
                         fired |-> Len(in_flight') > Len(in_flight),
                         t |-> t, ltt |-> last_trigger_time'],
                        TraceLen)
        /\ UNCHANGED <<threshold, calVars>>

\* One iteration of VolumeMonitor._monitor_loop: dt ticks after the previous
\* one, get_app_volume gives the normalized volume vol, or None
VolumeIteration(vol, dt) ==
    /\ now' = now + dt
    /\ iterations' = iterations + 1
    /\ UNCHANGED behaviorVars
    /\ IF ~is_action_allowed \/ vol = NoValue
       THEN UNCHANGED <<monitorVars, calVars, idleVars, pauseVars, raceVars, pidVars, recordVars, clickVars, log, fires, trace>>
       ELSE /\ current_volume_level' = vol
            /\ IF is_calibrating
               THEN /\ AddSample(vol, IsPeak(vol, baseline_volume), now + dt)
                    /\ log' = Append(log, [v |-> vol, cal |-> TRUE])
                    /\ UNCHANGED <<volume_history, baseline_volume, trigger_count,
                                   last_trigger_time, in_flight, fires, trace,
                                   calls, idleVars, pauseVars, raceVars, pidVars, recordVars, clickVars>>
               ELSE UpdateAndCheck(vol, now + dt)

\* The end of a perform_double_right_click thread: update_activity()
ActionEnd(i) ==
    /\ i \in 1..Len(in_flight)
    /\ now - in_flight[i] >= MinActionTicks
    /\ last_trigger_time' = now
    /\ last_activity_time' = now
    /\ in_flight' = [j \in 1..(Len(in_flight) - 1) |->
                        IF j < i THEN in_flight[j] ELSE in_flight[j + 1]]
    /\ clicks_sent' = clicks_sent + 2
    /\ click_counter' = click_counter + 1
    /\ UNCHANGED <<now, volume_history, baseline_volume, trigger_count,
                   current_volume_level, threshold, calVars, is_paused,
                   pauseVars, raceVars, pidVars, recordVars, inactivity_trigger_count, current_delay,
                   single_flight, checks, histVars, behaviorVars>>

\* Faulty variant: the thread that finds no window still counts a click
ActionNoWindow_CountsClick(i) ==
    /\ i \in 1..Len(in_flight)
    /\ in_flight' = [j \in 1..(Len(in_flight) - 1) |->
                        IF j < i THEN in_flight[j] ELSE in_flight[j + 1]]
    /\ click_counter' = click_counter + 1
    /\ UNCHANGED <<now, volume_history, baseline_volume, trigger_count,
                   last_trigger_time, current_volume_level, threshold, calVars,
                   idleVars, pauseVars, raceVars, pidVars, recordVars, clicks_sent, histVars, behaviorVars>>

\* A perform_double_right_click thread that finds no process id or no window
\* handle: it returns right after its reset_inactivity
ActionNoWindow(i) ==
    /\ i \in 1..Len(in_flight)
    /\ in_flight' = [j \in 1..(Len(in_flight) - 1) |->
                        IF j < i THEN in_flight[j] ELSE in_flight[j + 1]]
    /\ UNCHANGED <<now, volume_history, baseline_volume, trigger_count,
                   last_trigger_time, current_volume_level, threshold, calVars,
                   idleVars, pauseVars, raceVars, pidVars, recordVars, clickVars, histVars, behaviorVars>>

\* AutoCalibrator.start_calibration at time t
StartBody(t) ==
    /\ calibration_data' = <<>>
    /\ peak_values' = <<>>
    /\ is_calibrating' = TRUE
    /\ callback' = TRUE
    /\ start_time' = t

\* AutoFishApp.start_auto_calibration: the calibration button, which is
\* disabled while a calibration runs
StartCalibration ==
    /\ ~is_calibrating
    /\ StartBody(now)
    /\ UNCHANGED <<now, monitorVars, delivered, calls, idleVars, pauseVars, raceVars, pidVars, recordVars, clickVars, histVars,
                   behaviorVars>>

\* Faulty variant: cancel forgets the recorded peaks
CancelBody_KeepPeaks ==
    /\ is_calibrating' = FALSE
    /\ calibration_data' = <<>>
    /\ UNCHANGED peak_values

\* AutoCalibrator.cancel
CancelBody ==
    /\ is_calibrating' = FALSE
    /\ calibration_data' = <<>>
    /\ peak_values' = <<>>

\* AutoFishApp.cancel_calibration: the button of the calibration window
Cancel ==
    /\ is_calibrating
    /\ CancelBody
    /\ UNCHANGED <<now, monitorVars, start_time, delivered, callback, calls,
                   idleVars, pauseVars, raceVars, pidVars, recordVars, clickVars, histVars, behaviorVars>>

----------------------------------------------------------------------------
(* The volume monitor with its action threads and the calibration button *)

Samples == {10, 90}
Steps == {1, 41}
StartNow == 1000

Full10 == <<90, 10, 10, 10, 10, 10, 10, 10, 10, 10>>
InitHistories == {<<>>, <<10, 10, 10>>, Full10}

FirstPid == 1               \* the process id of the target when it is selected

\* AutoFishApp.select_application: the process id found by name is cached;
\* the target window has the focus
PidInit ==
    /\ app_pid = FirstPid
    /\ target_pid = FirstPid
    /\ is_app_in_foreground = TRUE

RecordThreads == 1..2       \* click threads that may run at the same time
RecordPatterns == {"steady", "inactivity"}
Hours == {13, 14}           \* datetime.now().hour during a behaviour

\* StatsManager._default_stats; no call of _record_click is in progress
RecordInit ==
    /\ total_clicks = 0
    /\ patterns_used = <<>>
    /\ hourly_distribution = [h \in Hours |-> 0]
    /\ record_pc = [t \in RecordThreads |-> "idle"]
    /\ record_arg = [t \in RecordThreads |-> [pattern |-> "steady", hour |-> 13]]
    /\ record_reg = [t \in RecordThreads |-> 0]
    /\ recorded = 0

\* No call of add_sample or cancel is in progress
RaceInit ==
    /\ sample_pc = "idle"
    /\ sample_arg = [v |-> 0, peak |-> FALSE]
    /\ cancel_pc = "idle"
    /\ cancel_mark = NoValue

\* AppState.__init__: nothing blocks the actions, no click is counted
PauseInit ==
    /\ is_completely_disabled = FALSE
    /\ is_inventory_open = FALSE
    /\ is_chat_open = FALSE
    /\ temp_pause_remaining = 0
    /\ temp_pause_start = 0
    /\ pause_pc = "test"
    /\ elapsed = 0
    /\ key_pc = "idle"
    /\ pause_call = NoValue
    /\ notifications = <<>>
    /\ click_counter = 0
    /\ clicks_sent = 0

MonitorInit(h) ==
    /\ now = StartNow
    /\ volume_history = h
    /\ baseline_volume = IF h = <<>> THEN [num |-> 0, den |-> 1]
                         ELSE IF Len(h) < 2 THEN [num |-> h[1], den |-> 1]
                         ELSE [num |-> SumSeq(h), den |-> Len(h)]
    /\ trigger_count = 0
    /\ last_trigger_time = 0
    /\ current_volume_level = IF h = <<>> THEN 0 ELSE h[Len(h)]
    /\ threshold = DefaultThreshold
    /\ in_flight = <<>>
    /\ is_calibrating = FALSE
    /\ calibration_data = <<>>
    /\ peak_values = <<>>
    /\ start_time = 0
    /\ delivered = <<>>
    /\ callback = FALSE
    /\ calls = <<>>
    /\ is_paused = FALSE
    /\ PauseInit
    /\ RaceInit
    /\ PidInit
    /\ RecordInit
    /\ last_activity_time = StartNow
    /\ inactivity_trigger_count = 0
    /\ current_delay = 100
    /\ single_flight = <<>>
    /\ checks = <<>>
    /\ iterations = 0
    /\ log = [i \in 1..Len(h) |-> [v |-> h[i], cal |-> FALSE]]
    /\ fires = <<>>
    /\ trace = <<>>

InitWith(h) == MonitorInit(h) /\ EngineInit(DefaultMinDelay, DefaultMaxDelay, 1)

Init == \E h \in InitHistories : InitWith(h)

MonitorStep ==
    /\ iterations < MaxIterations
    /\ \E vol \in Samples \cup {NoValue}, dt \in Steps : VolumeIteration(vol, dt)

ThreadStep == \E i \in 1..Len(in_flight) : ActionEnd(i)

Next == MonitorStep \/ ThreadStep \/ StartCalibration \/ Cancel

Spec == Init /\ [][Next]_vars

----------------------------------------------------------------------------
(* The end-to-end scenario: a fixed sample sequence fed to the monitor *)

Script == <<10, 10, 10, 90, 90, 10, 10>>

InitScenario == InitWith(<<>>)

ScriptStep ==
    /\ iterations < Len(Script)
    /\ \E dt \in Steps : VolumeIteration(Script[iterations + 1], dt)

NextScenario == ScriptStep \/ ThreadStep

SpecScenario == InitScenario /\ [][NextScenario]_vars

----------------------------------------------------------------------------
(* A borderline input: a loud sample, a quiet one, then again and again a
   loud sample followed by two quiet ones *)

MaxHoverIterations == 17    \* monitor iterations in one behaviour

\* The k-th sample of the sequence
HoverScript(k) ==
    IF k <= 2
    THEN <<90, 10>>[k]
    ELSE <<90, 10, 10>>[((k - 3) % 3) + 1]

InitHover == InitWith(Full10)

HoverStep ==
    /\ iterations < MaxHoverIterations
    /\ \E dt \in Steps : VolumeIteration(HoverScript(iterations + 1), dt)

NextHover == HoverStep

SpecHover == InitHover /\ [][NextHover]_vars

----------------------------------------------------------------------------
(* The monitor during and after a calibration *)

CalSamples == {0, 60, 70, 100}
CalSteps == {1, 601}
InitCalHistories == {<<10>>, <<90>>}

InitCalib == \E h \in InitCalHistories : InitWith(h)

CalMonitorStep ==
    /\ iterations < MaxCalIterations
    /\ \E vol \in CalSamples, dt \in CalSteps : VolumeIteration(vol, dt)

NextCalib == CalMonitorStep \/ ThreadStep \/ StartCalibration \/ Cancel

SpecCalib == InitCalib /\ [][NextCalib]_vars

----------------------------------------------------------------------------
(* The action threads calling the engine *)

InitEngine ==
    /\ MonitorInit(<<>>)
    /\ \E p \in DelayPairs, rate \in SkillRates : EngineInit(p[1], p[2], rate)

NextEngine ==
    \E t \in ThreadIds : \/ Launch(t) \/ EnterDelay(t) \/ ExitDelay(t)
                         \/ ReturnDelay(t) \/ Complete(t)

SpecEngine == InitEngine /\ [][NextEngine]_vars

----------------------------------------------------------------------------
(* The calibrator's methods called directly, in any order *)

MaxDirectCalls == 4         \* direct calls in one behaviour

DirectSamples == {30, 70}
DirectSteps == {1, 601}

\* Faulty variant: add_sample collects whether or not a calibration runs
Collecting_Always(active) == TRUE

\* add_sample: if not self.is_calibrating: return
Collecting(active) == active

\* What one direct call saw and did; progress counts the calls of the
\* progress callback, completed lists the arguments of the completion callback
CallRecord(op, progress) ==
    [op |-> op, registered |-> callback,
     active |-> is_calibrating, data |-> calibration_data, peaks |-> peak_values,
     active2 |-> is_calibrating', data2 |-> calibration_data',
     peaks2 |-> peak_values',
     progress |-> progress,
     completed |-> SubSeq(delivered', Len(delivered) + 1, Len(delivered'))]

\* start_calibration(callback, progress_callback), dt ticks after the last call
CallStart(dt) ==
    /\ Len(calls) < MaxDirectCalls
    /\ now' = now + dt
    /\ StartBody(now + dt)
    /\ UNCHANGED <<monitorVars, delivered, idleVars, pauseVars, raceVars, pidVars, recordVars, clickVars, histVars, behaviorVars>>
    /\ calls' = Append(calls, CallRecord("start_calibration", 0))

\* add_sample(n, isPeak), dt ticks after the last call
CallAddSample(n, isPeak, dt) ==
    /\ Len(calls) < MaxDirectCalls
    /\ now' = now + dt
    /\ IF Collecting(is_calibrating)
       THEN AddSample(n, isPeak, now + dt)
       ELSE UNCHANGED <<is_calibrating, calibration_data, peak_values, start_time,
                       delivered, callback, threshold>>
    /\ UNCHANGED <<volume_history, baseline_volume, trigger_count,
                   last_trigger_time, current_volume_level, in_flight, idleVars, pauseVars, raceVars, pidVars, recordVars, clickVars,
                   histVars, behaviorVars>>
    /\ calls' = Append(calls, CallRecord("add_sample",
                                        IF Collecting(is_calibrating) THEN 1 ELSE 0))

\* finish_calibration()
CallFinish ==
    /\ Len(calls) < MaxDirectCalls
    /\ FinishCalibration(calibration_data, peak_values)
    /\ UNCHANGED <<now, volume_history, baseline_volume, trigger_count,
                   last_trigger_time, current_volume_level, in_flight,
                   calibration_data, peak_values, start_time, callback, idleVars, pauseVars, raceVars, pidVars, recordVars, clickVars,
                   histVars, behaviorVars>>
    /\ calls' = Append(calls, CallRecord("finish_calibration", 0))

\* cancel()
CallCancel ==
    /\ Len(calls) < MaxDirectCalls
    /\ CancelBody
    /\ UNCHANGED <<now, monitorVars, start_time, delivered, callback, idleVars, pauseVars, raceVars, pidVars, recordVars, clickVars,
                   histVars, behaviorVars>>
    /\ calls' = Append(calls, CallRecord("cancel", 0))

InitCalibrator == InitWith(<<>>)

NextCalibrator ==
    \/ \E dt \in DirectSteps : CallStart(dt)
    \/ \E n \in DirectSamples, isPeak \in BOOLEAN, dt \in DirectSteps :
          CallAddSample(n, isPeak, dt)
    \/ CallFinish
    \/ CallCancel

SpecCalibrator == InitCalibrator /\ [][NextCalibrator]_vars

----------------------------------------------------------------------------
(* The inactivity monitor and the pause key beside the volume monitor *)

MaxIdleIterations == 2      \* volume-monitor iterations in one behaviour
MaxChecks == 2              \* inactivity checks in one behaviour

MinSingleTicks == 2         \* the humanized delay of the single click

IdleSamples == {90}
IdleSteps == {21, 601}

\* Faulty variant: the inactivity monitor does not look at the calibrator
ShouldCheckInactivity_IgnoreCalibration(allowed, calibrating) == allowed

\* InactivityMonitor._should_check_inactivity
ShouldCheckInactivity(allowed, calibrating) == allowed /\ ~calibrating

\* Faulty variant: the click is started at the first check that finds inactivity
InactivityIteration_FirstCheck ==
    LET should   == ShouldCheckInactivity(is_action_allowed, is_calibrating)
        exceeded == now - last_activity_time > current_delay
        count    == inactivity_trigger_count + 1
    IN  /\ Len(checks) < MaxChecks
        /\ checks # <<>> => now - checks[Len(checks)].t >= InactivitySleep
        /\ IF ~should
           THEN UNCHANGED <<last_activity_time, inactivity_trigger_count,
                           current_delay, single_flight>>
           ELSE IF ~exceeded
           THEN /\ inactivity_trigger_count' = 0
                /\ UNCHANGED <<last_activity_time, current_delay, single_flight>>
           ELSE IF count >= 1
           THEN /\ single_flight' = Append(single_flight, now)
                /\ ResetInactivity(now)
           ELSE /\ inactivity_trigger_count' = count
                /\ UNCHANGED <<last_activity_time, current_delay, single_flight>>
        /\ checks' = Append(checks,
                        [t |-> now, cal |-> is_calibrating,
                         allowed |-> is_action_allowed,
                         idle |-> now - last_activity_time > current_delay,
                         pre |-> inactivity_trigger_count,
                         post |-> inactivity_trigger_count',
                         started |-> Len(single_flight') > Len(single_flight)])
        /\ UNCHANGED <<now, monitorVars, calVars, is_paused, pauseVars, raceVars, pidVars, recordVars, clickVars, histVars,
                       behaviorVars>>

\* One iteration of InactivityMonitor._monitor_loop, at least one sleep after
\* the previous one; the thread it starts begins with reset_inactivity
InactivityIteration ==
    LET should   == ShouldCheckInactivity(is_action_allowed, is_calibrating)
        exceeded == now - last_activity_time > current_delay
        count    == inactivity_trigger_count + 1
    IN  /\ Len(checks) < MaxChecks
        /\ checks # <<>> => now - checks[Len(checks)].t >= InactivitySleep
        /\ IF ~should
           THEN UNCHANGED <<last_activity_time, inactivity_trigger_count,
                           current_delay, single_flight>>
           ELSE IF ~exceeded
           THEN /\ inactivity_trigger_count' = 0
                /\ UNCHANGED <<last_activity_time, current_delay, single_flight>>
           ELSE IF count >= 2
           THEN /\ single_flight' = Append(single_flight, now)
                /\ ResetInactivity(now)
           ELSE /\ inactivity_trigger_count' = count
                /\ UNCHANGED <<last_activity_time, current_delay, single_flight>>
        /\ checks' = Append(checks,
                        [t |-> now, cal |-> is_calibrating,
                         allowed |-> is_action_allowed,
                         idle |-> now - last_activity_time > current_delay,
                         pre |-> inactivity_trigger_count,
                         post |-> inactivity_trigger_count',
                         started |-> Len(single_flight') > Len(single_flight)])
        /\ UNCHANGED <<now, monitorVars, calVars, is_paused, pauseVars, raceVars, pidVars, recordVars, clickVars, histVars,
                       behaviorVars>>

\* The end of a perform_single_right_click thread
SingleEnd(i) ==
    /\ i \in 1..Len(single_flight)
    /\ now - single_flight[i] >= MinSingleTicks
    /\ last_activity_time' = now
    /\ single_flight' = [j \in 1..(Len(single_flight) - 1) |->
                            IF j < i THEN single_flight[j] ELSE single_flight[j + 1]]
    /\ clicks_sent' = clicks_sent + 1
    /\ click_counter' = click_counter + 1
    /\ UNCHANGED <<now, monitorVars, calVars, is_paused, pauseVars, raceVars, pidVars, recordVars,
                   inactivity_trigger_count, current_delay, checks, histVars,
                   behaviorVars>>

\* A perform_single_right_click thread that finds no process id or no window
\* handle: it returns right after its reset_inactivity
SingleNoWindow(i) ==
    /\ i \in 1..Len(single_flight)
    /\ single_flight' = [j \in 1..(Len(single_flight) - 1) |->
                            IF j < i THEN single_flight[j] ELSE single_flight[j + 1]]
    /\ UNCHANGED <<now, monitorVars, calVars, is_paused, last_activity_time,
                   inactivity_trigger_count, current_delay, checks, pauseVars, raceVars, pidVars, recordVars,
                   clickVars, histVars, behaviorVars>>

\* AutoFishApp.toggle_pause: the pause key
TogglePause ==
    /\ is_paused' = ~is_paused
    /\ ResetInactivity(now)
    /\ UNCHANGED <<now, monitorVars, calVars, single_flight, checks, histVars,
                   behaviorVars, pauseVars, raceVars, pidVars, recordVars, clickVars>>

\* The program one monitor iteration and one inactivity click into a run: a
\* quiet and a loud sample are in the history, the loud one has counted as a
\* first hit, and the perform_single_right_click thread that the inactivity
\* monitor started one sleep ago is still running
InitIdle ==
    /\ now = StartNow
    /\ volume_history = <<10, 90>>
    /\ baseline_volume = [num |-> 100, den |-> 2]
    /\ trigger_count = 2
    /\ last_trigger_time = 0
    /\ current_volume_level = 90
    /\ threshold = DefaultThreshold
    /\ in_flight = <<>>
    /\ is_calibrating = FALSE
    /\ calibration_data = <<>>
    /\ peak_values = <<>>
    /\ start_time = 0
    /\ delivered = <<>>
    /\ callback = FALSE
    /\ calls = <<>>
    /\ is_paused = FALSE
    /\ PauseInit
    /\ RaceInit
    /\ PidInit
    /\ RecordInit
    /\ last_activity_time = StartNow - InactivitySleep
    /\ inactivity_trigger_count = 0
    /\ current_delay = 100
    /\ single_flight = <<StartNow - InactivitySleep>>
    /\ checks = <<>>
    /\ iterations = 0
    /\ log = <<[v |-> 10, cal |-> FALSE], [v |-> 90, cal |-> FALSE]>>
    /\ fires = <<>>
    /\ trace = <<>>
    /\ EngineInit(DefaultMinDelay, DefaultMaxDelay, 1)

IdleMonitorStep ==
    /\ iterations < MaxIdleIterations
    /\ \E vol \in IdleSamples \cup {NoValue}, dt \in IdleSteps :
          VolumeIteration(vol, dt)

IdleThreadStep ==
    \/ \E i \in 1..Len(in_flight) : ActionEnd(i)
    \/ \E i \in 1..Len(single_flight) : SingleEnd(i)

NextIdle ==
    \/ IdleMonitorStep
    \/ InactivityIteration
    \/ IdleThreadStep
    \/ TogglePause
    \/ StartCalibration

SpecIdle == InitIdle /\ [][NextIdle]_vars

----------------------------------------------------------------------------
(* The engine's operations called one after another, late in a session *)

\* The delay returned by the i-th call of the session so far
PastDelay(i) == DefaultMinDelay + (i % 60)

\* (calls made, patterns selected, skill_improvement_rate) of the session so
\* far
PastSessions == {<<940, 59, 1>>, <<1000, 63, 5>>}

\* The engine after n calls of get_humanized_delay, s of which selected a
\* pattern, no call in progress
EngineAfter(n, s, rate) ==
    LET kept == Min2(n, MemoryCap)
        past == [i \in 1..kept |-> PastDelay(n - kept + i)]
    IN  /\ min_delay = DefaultMinDelay
        /\ max_delay = DefaultMaxDelay
        /\ skill_improvement_rate = rate
        /\ profile = DefaultProfile
        /\ action_count = n
        /\ streak_counter = 0
        /\ last_pattern_type = IF n = 0 THEN NoPattern ELSE "steady"
        /\ fatigue_accumulator = Min2(FatigueCap, (n + s) * FatigueStep)
        /\ action_quality = Min2(QualityCap, QualityStart + n * rate)
        /\ delay_memory = past
        /\ last_delays = LastOf(past, LastDelaysCap)
        /\ pc = [t \in ThreadIds |-> "idle"]
        /\ pattern = [t \in ThreadIds |-> NoPattern]
        /\ delay = [t \in ThreadIds |-> 0]
        /\ launched = 0
        /\ returned = [i \in 1..kept |->
                          [min |-> DefaultMinDelay, max |-> DefaultMaxDelay,
                           delay |-> past[i]]]
        /\ session = [resets |-> 0, mark |-> 0, selects |-> 0]
        /\ last_click = NoClick
            /\ streak_targets = <<>>

DefaultRect == <<0, 0, 854, 480>>
SessionOffsets == {<<-1000, 1000>>}

InitSession ==
    /\ MonitorInit(<<>>)
    /\ \E p \in PastSessions : EngineAfter(p[1], p[2], p[3])

NextSession ==
    \/ (launched < MaxSessionCalls /\ Launch("volume"))
    \/ EnterDelay("volume")
    \/ ExitDelay("volume")
    \/ ReturnDelay("volume")
    \/ Complete("volume")
    \/ SelectPattern
    \/ ResetSession
    \/ \E o \in SessionOffsets : FirstClick(DefaultRect, o[1], o[2])

SpecSession == InitSession /\ [][NextSession]_vars

----------------------------------------------------------------------------
(* The click position, for every client rectangle *)

Rects == {DefaultRect, <<0, 0, 8, 8>>, <<0, 0, 0, 0>>, <<10, 20, 110, 70>>}
ClickOffsets == {-1000, -3, 0, 3, 1000}

InitClick == InitWith(<<>>)

NextClick ==
    \/ \E rect \in Rects, ox \in ClickOffsets, oy \in ClickOffsets :
          FirstClick(rect, ox, oy)
    \/ \E ox \in ClickOffsets, oy \in ClickOffsets : SecondClick(ox, oy)

SpecClick == InitClick /\ [][NextClick]_vars

----------------------------------------------------------------------------
(* One thread calling the engine again and again, at the start of a session *)
(* and inside a streak                                                      *)

\* (pattern of the streak, streak_counter, calls made so far in the streak)
Streaks == {<<NoPattern, 0, 0>>, <<"accelerating", 11, 2>>,
            <<"decelerating", 11, 2>>, <<"steady", 1, 3>>}

\* The engine after n calls of get_humanized_delay, the first of which
\* selected the pattern p and the last of which left streak_counter at s; no
\* call in progress
EngineInStreak(p, s, n) ==
    /\ min_delay = DefaultMinDelay
    /\ max_delay = DefaultMaxDelay
    /\ skill_improvement_rate = 1
    /\ profile = DefaultProfile
    /\ action_count = n
    /\ streak_counter = s
    /\ last_pattern_type = p
    /\ fatigue_accumulator = IF n = 0 THEN 0 ELSE (n + 1) * FatigueStep
    /\ action_quality = QualityStart + n
    /\ delay_memory = [i \in 1..n |-> PastDelay(i)]
    /\ last_delays = [i \in 1..n |-> PastDelay(i)]
    /\ pc = [t \in ThreadIds |-> "idle"]
    /\ pattern = [t \in ThreadIds |-> NoPattern]
    /\ delay = [t \in ThreadIds |-> 0]
    /\ launched = 0
    /\ returned = [i \in 1..n |->
                      [min |-> DefaultMinDelay, max |-> DefaultMaxDelay,
                       delay |-> PastDelay(i)]]
    /\ session = [resets |-> 0, mark |-> 0, selects |-> 0]
    /\ last_click = NoClick
    /\ streak_targets = [i \in 1..n |->
                            TargetMean(p, s + n - i, DefaultMinDelay,
                                       DefaultMaxDelay)]

InitStreak ==
    /\ MonitorInit(<<>>)
    /\ \E k \in Streaks : EngineInStreak(k[1], k[2], k[3])

NextStreak ==
    \/ Launch("volume")
    \/ EnterDelay("volume")
    \/ ExitDelay("volume")
    \/ ReturnDelay("volume")
    \/ Complete("volume")

SpecStreak == InitStreak /\ [][NextStreak]_vars

----------------------------------------------------------------------------
(* The random profile, for every outcome of its draws *)

GaussDraws == {-5000, 2000, 3000, 10000, 12000, 12010, 20000, 26000}
BetaDraws == {0, 500, 1250, 5000, 10000}

InitProfile == InitWith(<<>>)

\* HumanProfile.generate_random(), for any outcome of its four draws
GenerateRandom ==
    /\ \E g \in GaussDraws, c \in BetaDraws, f \in BetaDraws, k \in BetaDraws :
          profile' = GeneratedProfile(g, c, f, k)
    /\ UNCHANGED <<now, monitorVars, calVars, idleVars, pauseVars, raceVars, pidVars, recordVars, clickVars, histVars, min_delay,
                   max_delay, skill_improvement_rate, engineVars, threadVars>>

NextProfile == GenerateRandom

SpecProfile == InitProfile /\ [][NextProfile]_vars

\* The human_profile entries of the settings file: the presets fast, normal
\* and slow as to_dict writes them, and a file changed outside the program
PersistedProfiles ==
    {[reaction_speed |-> 15000, consistency |-> 7000, fatigue_rate |-> 3000,
      concentration_level |-> 8000, rhythm_variation |-> 3000],
     DefaultProfile,
     [reaction_speed |-> 7000, consistency |-> 3000, fatigue_rate |-> 7000,
      concentration_level |-> 4000, rhythm_variation |-> 7000],
     [reaction_speed |-> 50000, consistency |-> 5000, fatigue_rate |-> 5000,
      concentration_level |-> 6000, rhythm_variation |-> 0]}

\* HumanProfile.from_dict: cls(**data), the fields as they are in the file
FromDict(data) == data

InitLoadProfile == InitWith(<<>>)

\* AutoFishApp._init_human_profile with a human_profile entry in the settings
LoadProfile ==
    /\ \E data \in PersistedProfiles : profile' = FromDict(data)
    /\ UNCHANGED <<now, monitorVars, calVars, idleVars, pauseVars, clickVars,
                   raceVars, pidVars, recordVars, histVars, min_delay, max_delay,
                   skill_improvement_rate, engineVars, threadVars>>

NextLoadProfile == LoadProfile \/ GenerateRandom

SpecLoadProfile == InitLoadProfile /\ [][NextLoadProfile]_vars

----------------------------------------------------------------------------
(* The temporary pause: the key handler that starts it and the loop that
   counts it down run in two threads and interleave statement by statement *)

MaxPauseSleeps == 32        \* sleeps of the temporary-pause loop in one behaviour

pauseOthers == <<monitorVars, calVars, idleVars, histVars, behaviorVars,
                 is_completely_disabled, is_inventory_open, is_chat_open,
                 clickVars, raceVars, pidVars, recordVars>>

InitTempPause == InitWith(<<>>)

\* AutoFishApp.start_temp_pause(15), its first statement:
\* temp_pause_remaining = seconds
StartTempPause ==
    /\ key_pc = "idle"
    /\ temp_pause_remaining' = PauseTicks
    /\ key_pc' = "stamp"
    /\ pause_call' = now
    /\ notifications' = <<>>
    /\ UNCHANGED <<now, temp_pause_start, pause_pc, elapsed, pauseOthers>>

\* start_temp_pause, its second statement: temp_pause_start = time.time()
StampTempPause ==
    /\ key_pc = "stamp"
    /\ temp_pause_start' = now
    /\ key_pc' = "idle"
    /\ UNCHANGED <<now, temp_pause_remaining, pause_pc, elapsed, pause_call,
                   notifications, pauseOthers>>

\* handle_temp_pause: the test of temp_pause_remaining and, when it is
\* positive, elapsed = time.time() - temp_pause_start
PauseTest ==
    /\ pause_pc = "test"
    /\ IF temp_pause_remaining > 0
       THEN /\ elapsed' = now - temp_pause_start
            /\ pause_pc' = "write"
       ELSE /\ pause_pc' = "sleep"
            /\ UNCHANGED elapsed
    /\ UNCHANGED <<now, temp_pause_remaining, temp_pause_start, key_pc,
                   pause_call, notifications, pauseOthers>>

\* handle_temp_pause: temp_pause_remaining = max(0, 15 - elapsed)
PauseWrite ==
    /\ pause_pc = "write"
    /\ temp_pause_remaining' = Max2(0, PauseTicks - elapsed)
    /\ pause_pc' = "check"
    /\ UNCHANGED <<now, temp_pause_start, elapsed, key_pc, pause_call,
                   notifications, pauseOthers>>

\* handle_temp_pause: when temp_pause_remaining is 0 the pause-end callback
\* runs; it returns or raises, and the loop has no exception handler
PauseCheck(raises) ==
    /\ pause_pc = "check"
    /\ IF temp_pause_remaining = 0
       THEN /\ notifications' = Append(notifications, now)
            /\ pause_pc' = IF raises THEN "dead" ELSE "sleep"
       ELSE /\ pause_pc' = "sleep"
            /\ UNCHANGED notifications
    /\ UNCHANGED <<now, temp_pause_remaining, temp_pause_start, elapsed,
                   key_pc, pause_call, pauseOthers>>

\* handle_temp_pause: time.sleep(0.5); the two statements of start_temp_pause
\* are not half a second apart
PauseWait ==
    /\ pause_pc = "sleep"
    /\ key_pc = "idle"
    /\ now < StartNow + MaxPauseSleeps * PauseSleep
    /\ now' = now + PauseSleep
    /\ pause_pc' = "test"
    /\ UNCHANGED <<temp_pause_remaining, temp_pause_start, elapsed, key_pc,
                   pause_call, notifications, pauseOthers>>

NextTempPause ==
    \/ StartTempPause
    \/ StampTempPause
    \/ PauseTest
    \/ PauseWrite
    \/ \E raises \in BOOLEAN : PauseCheck(raises)
    \/ PauseWait

SpecTempPause == InitTempPause /\ [][NextTempPause]_vars

----------------------------------------------------------------------------
(* The keys and loops that allow or block the automatic actions, next to the
   two monitors and the click threads they start *)

MaxGateIterations == 1      \* volume-monitor iterations in one behaviour

gateOthers == <<now, monitorVars, calVars, is_paused, last_activity_time,
                inactivity_trigger_count, current_delay, single_flight, checks,
                histVars, behaviorVars, clickVars, raceVars, pidVars, recordVars>>

\* AutoFishApp.toggle_disable: the disable key
ToggleDisable ==
    /\ is_completely_disabled' = ~is_completely_disabled
    /\ UNCHANGED <<is_inventory_open, is_chat_open, temp_pause_remaining,
                   temp_pause_start, pause_pc, elapsed, key_pc, pause_call,
                   notifications, gateOthers>>

\* The four actions that follow are the keys of the game, which
\* KeyboardHandler._on_key_press handles only while the target window is in
\* the foreground

\* KeyboardHandler._handle_game_keys, key E with the chat closed:
\* _toggle_inventory
ToggleInventory ==
    /\ is_app_in_foreground
    /\ ~is_chat_open
    /\ is_inventory_open' = ~is_inventory_open
    /\ UNCHANGED <<is_completely_disabled, is_chat_open, temp_pause_remaining,
                   temp_pause_start, pause_pc, elapsed, key_pc, pause_call,
                   notifications, gateOthers>>

\* KeyboardHandler._handle_game_keys, key T, / or : with the chat closed:
\* _open_chat
OpenChat ==
    /\ is_app_in_foreground
    /\ ~is_chat_open
    /\ is_chat_open' = TRUE
    /\ UNCHANGED <<is_completely_disabled, is_inventory_open,
                   temp_pause_remaining, temp_pause_start, pause_pc, elapsed,
                   key_pc, pause_call, notifications, gateOthers>>

\* KeyboardHandler._close_all_menus: the escape key
CloseAllMenus ==
    /\ is_app_in_foreground
    /\ is_inventory_open \/ is_chat_open
    /\ is_inventory_open' = FALSE
    /\ is_chat_open' = FALSE
    /\ UNCHANGED <<is_completely_disabled, temp_pause_remaining,
                   temp_pause_start, pause_pc, elapsed, key_pc, pause_call,
                   notifications, gateOthers>>

\* KeyboardHandler._close_chat: the enter key
CloseChat ==
    /\ is_app_in_foreground
    /\ is_chat_open
    /\ is_chat_open' = FALSE
    /\ UNCHANGED <<is_completely_disabled, is_inventory_open,
                   temp_pause_remaining, temp_pause_start, pause_pc, elapsed,
                   key_pc, pause_call, notifications, gateOthers>>

\* The program in the middle of a run: the volume monitor has fired on the
\* second of two loud samples, its perform_double_right_click thread and a
\* perform_single_right_click thread of the inactivity monitor are running.
\* The temporary-pause loop takes no step in these behaviours: a temporary
\* pause that was started stays in force
InitGate ==
    /\ now = StartNow
    /\ volume_history = <<10, 90, 90>>
    /\ baseline_volume = [num |-> 190, den |-> 3]
    /\ trigger_count = 0
    /\ last_trigger_time = StartNow - MinActionTicks
    /\ current_volume_level = 90
    /\ threshold = DefaultThreshold
    /\ in_flight = <<StartNow - MinActionTicks>>
    /\ is_calibrating = FALSE
    /\ calibration_data = <<>>
    /\ peak_values = <<>>
    /\ start_time = 0
    /\ delivered = <<>>
    /\ callback = FALSE
    /\ calls = <<>>
    /\ is_paused = FALSE
    /\ PauseInit
    /\ RaceInit
    /\ PidInit
    /\ RecordInit
    /\ last_activity_time = StartNow - MinActionTicks
    /\ inactivity_trigger_count = 0
    /\ current_delay = 100
    /\ single_flight = <<StartNow - MinActionTicks - MinSingleTicks>>
    /\ checks = <<>>
    /\ iterations = 0
    /\ log = <<[v |-> 10, cal |-> FALSE], [v |-> 90, cal |-> FALSE],
               [v |-> 90, cal |-> FALSE]>>
    /\ fires = <<[iter |-> 0, t |-> StartNow - MinActionTicks]>>
    /\ trace = <<>>
    /\ EngineInit(DefaultMinDelay, DefaultMaxDelay, 1)

GateMonitorStep ==
    /\ iterations < MaxGateIterations
    /\ \E vol \in IdleSamples, dt \in IdleSteps : VolumeIteration(vol, dt)

GateThreadStep ==
    \/ \E i \in 1..Len(in_flight) : ActionEnd(i)
    \/ \E i \in 1..Len(single_flight) : SingleEnd(i)

GateKeyStep ==
    \/ TogglePause
    \/ ToggleDisable
    \/ ToggleInventory
    \/ OpenChat
    \/ CloseAllMenus
    \/ CloseChat
    \/ StartTempPause
    \/ StampTempPause

NextGate ==
    \/ GateMonitorStep
    \/ InactivityIteration
    \/ GateThreadStep
    \/ GateKeyStep

SpecGate == InitGate /\ [][NextGate]_vars

----------------------------------------------------------------------------
(* cancel on the UI thread against add_sample on the monitor thread: the two
   calls interleave statement by statement *)

MaxRaceIterations == 3      \* volume-monitor iterations in one behaviour

RaceSamples == {30, 70}
RaceSteps == {1, 601}

raceOthers == <<monitorVars, idleVars, histVars, behaviorVars, pauseVars,
                clickVars, pidVars, recordVars>>

InitCancelRace == InitCalib

\* The calibration button, before any cancel
RaceStart ==
    /\ cancel_pc = "idle"
    /\ sample_pc = "idle"
    /\ StartCalibration

\* VolumeMonitor._monitor_loop up to the call of add_sample: the sample is
\* read dt ticks after the previous one; outside a calibration the iteration
\* goes on with the baseline and the trigger check
SampleCall(vol, dt) ==
    /\ sample_pc = "idle"
    /\ iterations < MaxRaceIterations
    /\ now' = now + dt
    /\ iterations' = iterations + 1
    /\ current_volume_level' = vol
    /\ UNCHANGED <<behaviorVars, cancel_pc, cancel_mark, pidVars, recordVars>>
    /\ IF is_calibrating
       THEN /\ sample_pc' = "test"
            /\ sample_arg' = [v |-> vol, peak |-> IsPeak(vol, baseline_volume)]
            /\ log' = Append(log, [v |-> vol, cal |-> TRUE])
            /\ UNCHANGED <<volume_history, baseline_volume, trigger_count,
                           last_trigger_time, threshold, in_flight, calVars,
                           idleVars, pauseVars, clickVars, fires, trace>>
       ELSE /\ UpdateAndCheck(vol, now + dt)
            /\ UNCHANGED <<sample_pc, sample_arg>>

\* add_sample: if not self.is_calibrating: return
SampleTest ==
    /\ sample_pc = "test"
    /\ sample_pc' = IF is_calibrating THEN "append" ELSE "idle"
    /\ UNCHANGED <<now, calVars, sample_arg, cancel_pc, cancel_mark, raceOthers>>

\* add_sample: self.calibration_data.append(volume_level)
SampleAppend ==
    /\ sample_pc = "append"
    /\ calibration_data' = Append(calibration_data, sample_arg.v)
    /\ sample_pc' = "peak"
    /\ UNCHANGED <<now, is_calibrating, peak_values, start_time, delivered,
                   callback, calls, sample_arg, cancel_pc, cancel_mark,
                   raceOthers>>

\* add_sample: if is_peak: self.peak_values.append(volume_level)
SamplePeak ==
    /\ sample_pc = "peak"
    /\ peak_values' = IF sample_arg.peak
                      THEN Append(peak_values, sample_arg.v)
                      ELSE peak_values
    /\ sample_pc' = "check"
    /\ UNCHANGED <<now, is_calibrating, calibration_data, start_time,
                   delivered, callback, calls, sample_arg, cancel_pc,
                   cancel_mark, raceOthers>>

\* add_sample: the elapsed time, and finish_calibration when it is over
SampleCheck ==
    /\ sample_pc = "check"
    /\ sample_pc' = "idle"
    /\ IF now - start_time > CalibrationDuration
       THEN FinishCalibration(calibration_data, peak_values)
       ELSE UNCHANGED <<is_calibrating, delivered, threshold>>
    /\ UNCHANGED <<now, volume_history, baseline_volume, trigger_count,
                   last_trigger_time, current_volume_level, in_flight,
                   calibration_data, peak_values, start_time, callback, calls,
                   sample_arg, cancel_pc, cancel_mark, idleVars, histVars,
                   behaviorVars, pauseVars, clickVars, pidVars, recordVars>>

\* cancel, called by the button of the calibration window:
\* self.is_calibrating = False
CancelFlag ==
    /\ cancel_pc = "idle"
    /\ is_calibrating
    /\ is_calibrating' = FALSE
    /\ cancel_pc' = "data"
    /\ cancel_mark' = Len(delivered)
    /\ UNCHANGED <<now, calibration_data, peak_values, start_time, delivered,
                   callback, calls, sample_pc, sample_arg, raceOthers>>

\* cancel: self.calibration_data = []
CancelData ==
    /\ cancel_pc = "data"
    /\ calibration_data' = <<>>
    /\ cancel_pc' = "peaks"
    /\ UNCHANGED <<now, is_calibrating, peak_values, start_time, delivered,
                   callback, calls, sample_pc, sample_arg, cancel_mark,
                   raceOthers>>

\* cancel: self.peak_values = [], and the return
CancelPeaks ==
    /\ cancel_pc = "peaks"
    /\ peak_values' = <<>>
    /\ cancel_pc' = "done"
    /\ UNCHANGED <<now, is_calibrating, calibration_data, start_time,
                   delivered, callback, calls, sample_pc, sample_arg,
                   cancel_mark, raceOthers>>

NextCancelRace ==
    \/ RaceStart
    \/ \E vol \in RaceSamples, dt \in RaceSteps : SampleCall(vol, dt)
    \/ SampleTest
    \/ SampleAppend
    \/ SamplePeak
    \/ SampleCheck
    \/ CancelFlag
    \/ CancelData
    \/ CancelPeaks

SpecCancelRace == InitCancelRace /\ [][NextCancelRace]_vars

----------------------------------------------------------------------------
(* The cached process id of the target, the target restarting under a new
   one, and the click threads that look the window up *)

MaxRestarts == 3            \* restarts of the target in one behaviour
MaxPidClicks == 8           \* right clicks posted in one behaviour

pidOthers == <<now, volume_history, baseline_volume, trigger_count,
               current_volume_level, threshold, in_flight, calVars, is_paused,
               single_flight, checks, histVars, behaviorVars, pauseVars,
               raceVars, is_app_in_foreground, recordVars>>

\* get_process_id_by_name: the process id the target runs under now
GetProcessIdByName == target_pid

\* get_hwnds_for_pid finds a window: only for the process id of the target
HwndsFound(pid) == pid # 0 /\ pid = target_pid

\* ClickHandler._get_window_handle: the process id it leaves in app_pid
PidAfterLookup == IF app_pid = 0 THEN GetProcessIdByName ELSE app_pid

InitStalePid == InitWith(<<>>)

\* The target is closed and started again: it runs under a new process id
TargetRestart ==
    /\ target_pid < FirstPid + MaxRestarts
    /\ target_pid' = target_pid + 1
    /\ UNCHANGED <<app_pid, last_trigger_time, last_activity_time,
                   inactivity_trigger_count, current_delay, clickVars,
                   pidOthers>>

\* AutoFishApp.select_application: the user selects the target again
SelectApplication ==
    /\ app_pid' = GetProcessIdByName
    /\ UNCHANGED <<target_pid, last_trigger_time, last_activity_time,
                   inactivity_trigger_count, current_delay, clickVars,
                   pidOthers>>

\* A whole run of perform_double_right_click
PidDoubleClick ==
    /\ clicks_sent + 2 <= MaxPidClicks
    /\ app_pid' = PidAfterLookup
    /\ inactivity_trigger_count' = 0
    /\ current_delay' \in InactivityDelays
    /\ last_activity_time' = now
    /\ IF HwndsFound(PidAfterLookup)
       THEN /\ clicks_sent' = clicks_sent + 2
            /\ click_counter' = click_counter + 1
            /\ last_trigger_time' = now
       ELSE UNCHANGED <<clicks_sent, click_counter, last_trigger_time>>
    /\ UNCHANGED <<target_pid, pidOthers>>

\* A whole run of perform_single_right_click
PidSingleClick ==
    /\ clicks_sent + 2 <= MaxPidClicks
    /\ app_pid' = PidAfterLookup
    /\ inactivity_trigger_count' = 0
    /\ current_delay' \in InactivityDelays
    /\ last_activity_time' = now
    /\ IF HwndsFound(PidAfterLookup)
       THEN /\ clicks_sent' = clicks_sent + 1
            /\ click_counter' = click_counter + 1
       ELSE UNCHANGED <<clicks_sent, click_counter>>
    /\ UNCHANGED <<target_pid, last_trigger_time, pidOthers>>

PidClickStep == PidDoubleClick \/ PidSingleClick

NextStalePid == TargetRestart \/ SelectApplication \/ PidClickStep

\* The monitors go on starting click threads
SpecStalePid ==
    InitStalePid /\ [][NextStalePid]_vars /\ WF_vars(PidClickStep)

----------------------------------------------------------------------------
(* The keys of the game and the focus of the target window *)

MaxFocusIterations == 2     \* volume-monitor iterations in one behaviour

GameKeys == {"e", "t", "/", ":", "esc", "enter", "other"}

focusOthers == <<monitorVars, calVars, idleVars, histVars, behaviorVars,
                 is_completely_disabled, temp_pause_remaining,
                 temp_pause_start, pause_pc, elapsed, key_pc, pause_call,
                 notifications, clickVars, raceVars, recordVars>>

\* Faulty variant: the key E toggles the inventory also while the chat is open
InventoryAfterKey_NoChatTest(key) ==
    IF key = "e" THEN ~is_inventory_open
    ELSE IF key = "esc" THEN FALSE
    ELSE is_inventory_open

\* KeyboardHandler._handle_game_keys: is_inventory_open after the key
InventoryAfterKey(key) ==
    IF is_chat_open
    THEN IF key = "esc" THEN FALSE ELSE is_inventory_open
    ELSE IF key = "e" THEN ~is_inventory_open
    ELSE IF key = "esc" THEN FALSE
    ELSE is_inventory_open

\* KeyboardHandler._handle_game_keys: is_chat_open after the key
ChatAfterKey(key) ==
    IF is_chat_open
    THEN IF key \in {"esc", "enter"} THEN FALSE ELSE TRUE
    ELSE IF key = "e" THEN FALSE
    ELSE IF key \in {"t", "/", ":"} THEN TRUE
    ELSE FALSE

\* KeyboardHandler._on_key_press for a key of the game: it is handled only
\* while the target window is in the foreground
OnKeyPress(key) ==
    /\ is_inventory_open' = IF is_app_in_foreground
                            THEN InventoryAfterKey(key)
                            ELSE is_inventory_open
    /\ is_chat_open' = IF is_app_in_foreground
                       THEN ChatAfterKey(key)
                       ELSE is_chat_open
    /\ UNCHANGED <<now, app_pid, target_pid, is_app_in_foreground, focusOthers>>

\* VolumeMonitor._update_foreground_status, the first statement of an
\* iteration: front tells whether the target window has the focus
UpdateForegroundStatus(front) ==
    /\ is_app_in_foreground' = front
    /\ UNCHANGED <<now, app_pid, target_pid, is_inventory_open, is_chat_open,
                   focusOthers>>

InitFocus == InitGate

FocusMonitorStep ==
    /\ iterations < MaxFocusIterations
    /\ \E vol \in IdleSamples, dt \in IdleSteps : VolumeIteration(vol, dt)

NextFocus ==
    \/ \E key \in GameKeys : OnKeyPress(key)
    \/ \E front \in BOOLEAN : UpdateForegroundStatus(front)
    \/ FocusMonitorStep

SpecFocus == InitFocus /\ [][NextFocus]_vars

----------------------------------------------------------------------------
(* Counting a click: _record_click and StatsManager.record_click, run by the
   click threads without a lock, statement by statement; x += 1 is a read
   followed by a write *)

MaxRecords == 3             \* calls of _record_click in one behaviour

recordOthers == <<now, monitorVars, calVars, idleVars, histVars, behaviorVars,
                  pauseVars, clicks_sent, raceVars, pidVars>>

\* Sum of the values of a function with a finite domain
RECURSIVE SumOver(_, _)
SumOver(f, D) ==
    IF D = {} THEN 0
    ELSE LET d == CHOOSE x \in D : TRUE IN f[d] + SumOver(f, D \ {d})

RecordStarted ==
    recorded + Cardinality({t \in RecordThreads : record_pc[t] # "idle"})

\* perform_double_click / perform_single_right_click reach _record_click
RecordStart(t, pat) ==
    /\ record_pc[t] = "idle"
    /\ RecordStarted < MaxRecords
    /\ record_arg' = [record_arg EXCEPT ![t].pattern = pat]
    /\ record_pc' = [record_pc EXCEPT ![t] = "counter_read"]
    /\ UNCHANGED <<recordOthers, click_counter, total_clicks, patterns_used,
                   hourly_distribution, record_reg, recorded>>

\* self.state.click_counter += 1
CounterRead(t) ==
    /\ record_pc[t] = "counter_read"
    /\ record_reg' = [record_reg EXCEPT ![t] = click_counter]
    /\ record_pc' = [record_pc EXCEPT ![t] = "counter_write"]
    /\ UNCHANGED <<recordOthers, click_counter, total_clicks, patterns_used,
                   hourly_distribution, record_arg, recorded>>

CounterWrite(t) ==
    /\ record_pc[t] = "counter_write"
    /\ click_counter' = record_reg[t] + 1
    /\ record_pc' = [record_pc EXCEPT ![t] = "total_read"]
    /\ UNCHANGED <<recordOthers, total_clicks, patterns_used,
                   hourly_distribution, record_arg, record_reg, recorded>>

\* self.stats['total_clicks'] += 1
TotalRead(t) ==
    /\ record_pc[t] = "total_read"
    /\ record_reg' = [record_reg EXCEPT ![t] = total_clicks]
    /\ record_pc' = [record_pc EXCEPT ![t] = "total_write"]
    /\ UNCHANGED <<recordOthers, click_counter, total_clicks, patterns_used,
                   hourly_distribution, record_arg, recorded>>

TotalWrite(t) ==
    /\ record_pc[t] = "total_write"
    /\ total_clicks' = record_reg[t] + 1
    /\ record_pc' = [record_pc EXCEPT ![t] = "pattern_test"]
    /\ UNCHANGED <<recordOthers, click_counter, patterns_used,
                   hourly_distribution, record_arg, record_reg, recorded>>

\* if pattern not in self.stats['patterns_used']
PatternTest(t) ==
    /\ record_pc[t] = "pattern_test"
    /\ record_pc' = [record_pc EXCEPT ![t] =
                        IF record_arg[t].pattern \in DOMAIN patterns_used
                        THEN "pattern_read" ELSE "pattern_init"]
    /\ UNCHANGED <<recordOthers, click_counter, total_clicks, patterns_used,
                   hourly_distribution, record_arg, record_reg, recorded>>

\* self.stats['patterns_used'][pattern] = 0
PatternInit(t) ==
    /\ record_pc[t] = "pattern_init"
    /\ patterns_used' =
           [q \in DOMAIN patterns_used \cup {record_arg[t].pattern} |->
               IF q = record_arg[t].pattern THEN 0 ELSE patterns_used[q]]
    /\ record_pc' = [record_pc EXCEPT ![t] = "pattern_read"]
    /\ UNCHANGED <<recordOthers, click_counter, total_clicks,
                   hourly_distribution, record_arg, record_reg, recorded>>

\* self.stats['patterns_used'][pattern] += 1
PatternRead(t) ==
    /\ record_pc[t] = "pattern_read"
    /\ record_reg' = [record_reg EXCEPT ![t] = patterns_used[record_arg[t].pattern]]
    /\ record_pc' = [record_pc EXCEPT ![t] = "pattern_write"]
    /\ UNCHANGED <<recordOthers, click_counter, total_clicks, patterns_used,
                   hourly_distribution, record_arg, recorded>>

PatternWrite(t) ==
    /\ record_pc[t] = "pattern_write"
    /\ patterns_used' =
           [patterns_used EXCEPT ![record_arg[t].pattern] = record_reg[t] + 1]
    /\ record_pc' = [record_pc EXCEPT ![t] = "hour_read"]
    /\ UNCHANGED <<recordOthers, click_counter, total_clicks,
                   hourly_distribution, record_arg, record_reg, recorded>>

\* hour = datetime.now().hour; self.stats['hourly_distribution'][hour] += 1
HourRead(t, hour) ==
    /\ record_pc[t] = "hour_read"
    /\ record_arg' = [record_arg EXCEPT ![t].hour = hour]
    /\ record_reg' = [record_reg EXCEPT ![t] = hourly_distribution[hour]]
    /\ record_pc' = [record_pc EXCEPT ![t] = "hour_write"]
    /\ UNCHANGED <<recordOthers, click_counter, total_clicks, patterns_used,
                   hourly_distribution, recorded>>

\* The write, and the return of record_click and _record_click
HourWrite(t) ==
    /\ record_pc[t] = "hour_write"
    /\ hourly_distribution' =
           [hourly_distribution EXCEPT ![record_arg[t].hour] = record_reg[t] + 1]
    /\ record_pc' = [record_pc EXCEPT ![t] = "idle"]
    /\ recorded' = recorded + 1
    /\ UNCHANGED <<recordOthers, click_counter, total_clicks, patterns_used,
                   record_arg, record_reg>>

InitRecord == InitWith(<<>>)

NextRecord ==
    \E t \in RecordThreads :
        \/ \E pat \in RecordPatterns : RecordStart(t, pat)
        \/ CounterRead(t)
        \/ CounterWrite(t)
        \/ TotalRead(t)
        \/ TotalWrite(t)
        \/ PatternTest(t)
        \/ PatternInit(t)
        \/ PatternRead(t)
        \/ PatternWrite(t)
        \/ \E hour \in Hours : HourRead(t, hour)
        \/ HourWrite(t)

SpecRecord == InitRecord /\ [][NextRecord]_vars

----------------------------------------------------------------------------
(* Lookups that fail: get_app_volume gives None, no process id or window
   handle is found by a click thread *)

MaxLookupIterations == 3    \* volume-monitor iterations in one behaviour

InitLookup == InitIdle

LookupMonitorStep ==
    /\ iterations < MaxLookupIterations
    /\ \E vol \in IdleSamples \cup {NoValue}, dt \in IdleSteps :
          VolumeIteration(vol, dt)

LookupThreadStep ==
    \/ \E i \in 1..Len(in_flight) : ActionEnd(i)
    \/ \E i \in 1..Len(in_flight) : ActionNoWindow(i)
    \/ \E i \in 1..Len(single_flight) : SingleEnd(i)
    \/ \E i \in 1..Len(single_flight) : SingleNoWindow(i)

NextLookup == LookupMonitorStep \/ InactivityIteration \/ LookupThreadStep

SpecLookup == InitLookup /\ [][NextLookup]_vars

----------------------------------------------------------------------------
(* Properties of the engine *)

\* C1: every delay returned for 0 < min_delay < max_delay is positive and lies
\* within [0.85*min_delay, 1.15*max_delay].
C1_DelayWithinOvershoot ==
    \A k \in 1..Len(returned) :
        (0 < returned[k].min /\ returned[k].min < returned[k].max)
            => /\ returned[k].delay > 0
               /\ 100 * returned[k].delay >= 85 * returned[k].min
               /\ 100 * returned[k].delay <= 115 * returned[k].max

\* C8: no two executions of get_humanized_delay on the engine overlap.
C8_DelayCallsExclusive ==
    Cardinality({t \in ThreadIds : pc[t] = "in_delay"}) <= 1

\* C21: a generated profile has reaction_speed in [0.3, 2.0], consistency in
\* [0.1, 1.0], fatigue_rate and concentration_level in [0.0, 1.0] and
\* rhythm_variation in [0.1, 1.0].
C21_ProfileInRange ==
    /\ 3000 <= profile.reaction_speed /\ profile.reaction_speed <= 20000
    /\ 1000 <= profile.consistency /\ profile.consistency <= 10000
    /\ 0 <= profile.fatigue_rate /\ profile.fatigue_rate <= 10000
    /\ 0 <= profile.concentration_level /\ profile.concentration_level <= 10000
    /\ 1000 <= profile.rhythm_variation /\ profile.rhythm_variation <= 10000

\* A profile whose reaction_speed was cut to 2.0 and whose consistency, made
\* smaller for a fast profile, was raised to 0.1
C21_Witness ==
    /\ profile.reaction_speed = 20000
    /\ profile.consistency = 1000
    /\ profile.fatigue_rate = 0
    /\ profile.rhythm_variation = 5000

C26_AcceleratingTargetFalls ==
    last_pattern_type = "accelerating" =>
        \A k \in 1..(Len(streak_targets) - 1) :
            streak_targets[k + 1] <= streak_targets[k]

\* C27: within one streak of the decelerating pattern the target mean of a
\* call is never below that of the call before it.
C27_DeceleratingTargetRises ==
    last_pattern_type = "decelerating" =>
        \A k \in 1..(Len(streak_targets) - 1) :
            streak_targets[k + 1] >= streak_targets[k]

\* C28: with no call in progress, fatigue_accumulator is 0.001 * fatigue_rate
\* times the number of calls of get_humanized_delay made, up to the cap.
C28_FatigueStepPerCall ==
    Quiescent =>
        fatigue_accumulator = Min2(FatigueCap, action_count * FatigueStep)

\* The delays returned since construction or the last reset_session, in the
\* order of their return
DelaysSinceReset ==
    [i \in 1..(Len(returned) - session.mark) |-> returned[session.mark + i].delay]

\* C17 as stated: action_quality stays within [0.5, 1.0] and no operation of
\* the engine, reset_session included, ever lowers it.
C17_Original ==
    /\ [](QualityStart <= action_quality /\ action_quality <= QualityCap)
    /\ [][action_quality' >= action_quality]_vars

\* C17: action_quality stays within [0.5, 1.0]; get_humanized_delay,
\* select_behavior_pattern and get_click_position_variation never lower it,
\* and reset_session sets it back to 0.5.
C17_QualityRisesUntilReset ==
    /\ [](QualityStart <= action_quality /\ action_quality <= QualityCap)
    /\ [][IF session'.resets # session.resets
          THEN action_quality' = QualityStart
          ELSE action_quality' >= action_quality]_vars

\* A call of get_humanized_delay has raised action_quality and the
\* reset_session after it has put it back to 0.5
C17_Witness ==
    /\ session.resets = 1
    /\ launched = 1
    /\ AllIdle
    /\ session.mark = Len(returned)
    /\ session.mark > 0
    /\ action_quality = QualityStart

\* C18: whenever no call of get_humanized_delay is in progress, delay_memory
\* holds the 50 most recently returned delays since construction or reset
\* and last_delays the 20 most recent, both in the order of the calls, and
\* neither is longer than its capacity.
C18_MemoryHoldsRecentDelays ==
    Quiescent =>
        /\ delay_memory = LastOf(DelaysSinceReset, MemoryCap)
        /\ last_delays = LastOf(DelaysSinceReset, LastDelaysCap)
        /\ Len(delay_memory) <= MemoryCap
        /\ Len(last_delays) <= LastDelaysCap

C20_Original ==
    last_click.n > 0 =>
        LET width  == last_click.rect[3] - last_click.rect[1]
            height == last_click.rect[4] - last_click.rect[2]
        IN  /\ Margin <= last_click.x /\ last_click.x <= width - Margin
            /\ Margin <= last_click.y /\ last_click.y <= height - Margin

\* C20: the returned x lies within [5, width - 5] when width >= 10 and is 5
\* when width < 10; likewise y with the height.
C20_ClickWithinMargins ==
    last_click.n > 0 =>
        LET width  == last_click.rect[3] - last_click.rect[1]
            height == last_click.rect[4] - last_click.rect[2]
        IN  /\ IF width >= 2 * Margin
               THEN Margin <= last_click.x /\ last_click.x <= width - Margin
               ELSE last_click.x = Margin
            /\ IF height >= 2 * Margin
               THEN Margin <= last_click.y /\ last_click.y <= height - Margin
               ELSE last_click.y = Margin

\* The second click of an action on a 100 x 50 rectangle, held at the right
\* margin and at the top margin
C20_Witness ==
    /\ last_click.n = 2
    /\ last_click.rect = <<10, 20, 110, 70>>
    /\ last_click.x = 95
    /\ last_click.y = Margin

----------------------------------------------------------------------------
(* Properties of the trigger debounce *)

\* A trigger check whose sample qualifies: volume condition and cooldown
Qualifies(e) == e.vol /\ e.cool

\* The samples of log that were not read during a calibration
RECURSIVE NonCalibration(_)
NonCalibration(l) ==
    IF l = <<>> THEN <<>>
    ELSE IF Head(l).cal THEN NonCalibration(Tail(l))
    ELSE <<Head(l).v>> \o NonCalibration(Tail(l))

\* C2 as stated: after a qualifying sample taken at trigger_count = 0, as long
\* as only non-qualifying samples follow (volume condition failed or cooldown
\* not elapsed), nothing fires, the count is 1 after the first and each later
\* sample lowers it by 0.5 down to 0.
C2_Original ==
    \A i \in 1..Len(trace), j \in 1..Len(trace) :
        ( /\ i < j
          /\ trace[i].pre = 0
          /\ Qualifies(trace[i])
          /\ \A k \in (i + 1)..j : ~Qualifies(trace[k]) )
        => /\ trace[i].post = 2
           /\ ~trace[i].fired
           /\ \A k \in (i + 1)..j :
                 /\ ~trace[k].fired
                 /\ trace[k].post = Max2(0, trace[k - 1].post - 1)

\* C2 amended: after a qualifying sample taken at trigger_count = 0, as long as
\* only samples that fail the volume condition follow, nothing fires, the
\* count is 1 after the first and each later sample lowers it by 0.5 down to 0;
\* and no run of non-qualifying samples after it fires an action.
C2_SingleSpikeDecays ==
    \A i \in 1..Len(trace), j \in 1..Len(trace) :
        /\ ( /\ i < j
             /\ trace[i].pre = 0
             /\ Qualifies(trace[i])
             /\ \A k \in (i + 1)..j : ~trace[k].vol )
           => /\ trace[i].post = 2
              /\ ~trace[i].fired
              /\ \A k \in (i + 1)..j :
                    /\ ~trace[k].fired
                    /\ trace[k].post = Max2(0, trace[k - 1].post - 1)
        /\ ( /\ i < j
             /\ trace[i].pre = 0
             /\ Qualifies(trace[i])
             /\ \A k \in (i + 1)..j : ~Qualifies(trace[k]) )
           => \A k \in i..j : ~trace[k].fired

C2_Witness ==
    /\ Len(trace) >= 4
    /\ trace[1].pre = 0 /\ Qualifies(trace[1]) /\ trace[1].post = 2
    /\ ~trace[2].vol /\ trace[2].post = 1
    /\ ~trace[3].vol /\ trace[3].post = 0
    /\ ~trace[4].vol /\ trace[4].post = 0
    /\ fires = <<>>

\* C3: after a qualifying sample at trigger_count = 0 and one decay step
\* (trigger_count = 0.5), two consecutive qualifying samples fire exactly one
\* action, at the second; the firing check leaves trigger_count = 0 and
\* last_trigger_time equal to the time of the firing sample.
C3_TwoHitsFireOnce ==
    \A i \in 1..(Len(trace) - 3) :
        ( /\ trace[i].pre = 0 /\ Qualifies(trace[i])
          /\ ~Qualifies(trace[i + 1]) /\ trace[i + 1].post = 1
          /\ Qualifies(trace[i + 2])
          /\ Qualifies(trace[i + 3]) )
        => /\ ~trace[i + 2].fired
           /\ trace[i + 2].post = 3
           /\ trace[i + 3].fired
           /\ trace[i + 3].post = 0
           /\ trace[i + 3].ltt = trace[i + 3].t

C3_Witness ==
    /\ Len(trace) >= 4
    /\ trace[1].pre = 0 /\ Qualifies(trace[1])
    /\ ~Qualifies(trace[2]) /\ trace[2].post = 1
    /\ Qualifies(trace[3])
    /\ Qualifies(trace[4])
    /\ trace[4].fired
    /\ trigger_count = 0
    /\ last_trigger_time = trace[4].t

\* C4: fed 1,1,1,9,9,1,1 with threshold 8, cooldown 2 s, an empty history and
\* last_trigger_time = 0, the monitor fires exactly once, at the second 9 (the
\* fifth sample), and the trailing 1s fire nothing.
C4_ScenarioFiresOnce ==
    /\ \A k \in 1..Len(fires) : fires[k].iter = 5
    /\ Len(fires) <= 1
    /\ iterations >= 5 => Len(fires) = 1

C4_Witness == iterations = Len(Script) /\ Len(fires) = 1 /\ fires[1].iter = 5

\* C5: trigger_count increases, and an action fires, only on a sample with
\* normalized > threshold, normalized > 1.2*baseline and the cooldown elapsed;
\* any two actions fired by the monitor are more than cooldown_period apart.
C5_IncrementNeedsAllThree ==
    /\ \A k \in 1..Len(trace) :
          (trace[k].post > trace[k].pre \/ trace[k].fired)
              => (trace[k].vol /\ trace[k].cool)
    /\ \A a \in 1..Len(fires), b \in 1..Len(fires) :
          a < b => fires[b].t - fires[a].t > CooldownPeriod

C5_Witness ==
    /\ Len(fires) >= 2
    /\ \E k \in 1..Len(trace) : trace[k].post > trace[k].pre

\* C6 as stated: a sample that fails the trigger condition (volume condition
\* failed or cooldown not elapsed) lowers a positive trigger_count by 0.5, and
\* trigger_count is never negative.
C6_Original ==
    /\ trigger_count >= 0
    /\ \A k \in 1..Len(trace) :
          (~Qualifies(trace[k]) /\ trace[k].pre > 0)
              => trace[k].post = trace[k].pre - 1

\* C6 amended: a sample that fails the volume condition (not above the
\* threshold or not above 1.2*baseline) lowers a positive trigger_count by
\* 0.5; a sample that passes the volume condition while the cooldown has not
\* elapsed leaves trigger_count unchanged; trigger_count is never negative.
C6_DecayOnVolumeFailure ==
    /\ trigger_count >= 0
    /\ \A k \in 1..Len(trace) :
          /\ trace[k].post >= 0
          /\ (~trace[k].vol /\ trace[k].pre > 0)
                => trace[k].post = trace[k].pre - 1
          /\ (trace[k].vol /\ ~trace[k].cool)
                => trace[k].post = trace[k].pre

C6_Witness ==
    \E k \in 1..Len(trace) :
        ~trace[k].vol /\ trace[k].pre > 0 /\ trace[k].post = trace[k].pre - 1

\* C7: a non-empty volume_history holds the most recent (at most 10) samples
\* read outside calibration, oldest first, and baseline_volume is their mean.
C7_HistoryAndBaseline ==
    volume_history # <<>> =>
        /\ volume_history = LastOf(NonCalibration(log), HistoryCap)
        /\ Len(volume_history) <= HistoryCap
        /\ baseline_volume.num * Len(volume_history)
              = SumSeq(volume_history) * baseline_volume.den

C7_Witness ==
    /\ Len(NonCalibration(log)) > HistoryCap
    /\ \E k \in 1..Len(log) : log[k].cal
    /\ volume_history # Full10
    /\ Len(volume_history) = HistoryCap

\* C24: a failed lookup is a skipped cycle: a volume-monitor iteration whose
\* get_app_volume gives None changes none of current_volume_level,
\* volume_history, baseline_volume, trigger_count, last_trigger_time and starts
\* no action; a click thread that finds no process id or window handle posts
\* no click and does not increment click_counter.
C24_FailedLookupIsSkipped ==
    [][/\ (\E dt \in IdleSteps : VolumeIteration(NoValue, dt))
          => UNCHANGED <<current_volume_level, volume_history, baseline_volume,
                         trigger_count, last_trigger_time, in_flight>>
       /\ ( \/ \E i \in 1..Len(in_flight) : ActionNoWindow(i)
            \/ \E i \in 1..Len(single_flight) : SingleNoWindow(i) )
          => UNCHANGED <<clicks_sent, click_counter>>]_vars

\* A sample was read and fired an action, a later lookup of the volume gave
\* None, and both click threads have ended without finding a window
C24_Witness ==
    /\ iterations = 2
    /\ Len(log) = 3
    /\ Len(fires) = 1
    /\ in_flight = <<>>
    /\ single_flight = <<>>
    /\ clicks_sent = 0
    /\ click_counter = 0

\* C32: while a calibration is active (is_calibrating true) no click is posted
\* to the target window, whatever was started before the calibration began.
C32_NoClickWhileCalibrating ==
    [][is_calibrating => clicks_sent' = clicks_sent]_vars

\* C33: a stale cached process id is resolved again: when app_pid no longer
\* is the process id of the running target, the click threads that follow
\* lead to app_pid being the target's process id again.
C33_StalePidIsResolved ==
    (app_pid # target_pid /\ clicks_sent + 2 <= MaxPidClicks)
        ~> (app_pid = target_pid)

\* C34: the inventory and chat auto-pause blocks the actions only while the
\* target window is in the foreground: with the window in the background, not
\* paused, not disabled and no temporary pause, the actions are allowed.
C34_BackgroundNotBlocked ==
    ( /\ ~is_app_in_foreground
      /\ ~is_paused
      /\ ~is_completely_disabled
      /\ temp_pause_remaining = 0 )
        => is_action_allowed

\* C38: while the chat is open and the target window is in the foreground,
\* Escape clears is_inventory_open and is_chat_open, Enter clears is_chat_open
\* only, and every other key (E, T, / and : included) leaves both flags as
\* they are.
C38_ChatOpenKeys ==
    [][(is_chat_open /\ is_app_in_foreground)
          => /\ OnKeyPress("esc") => ~is_inventory_open' /\ ~is_chat_open'
             /\ OnKeyPress("enter")
                   => ~is_chat_open' /\ UNCHANGED is_inventory_open
             /\ \A key \in GameKeys \ {"esc", "enter"} :
                   OnKeyPress(key)
                     => UNCHANGED <<is_inventory_open, is_chat_open>>]_vars

\* The chat was opened over the open inventory, the window is in front and
\* the monitor has gone through its iterations
C38_Witness ==
    /\ is_app_in_foreground
    /\ is_inventory_open
    /\ is_chat_open
    /\ iterations = MaxFocusIterations

\* C35: every profile an engine is created with, also one loaded from the
\* settings through from_dict, has its five traits within their ranges.
C35_CreatedProfileInRange ==
    /\ profile.reaction_speed \in 3000..20000
    /\ profile.consistency \in 1000..10000
    /\ profile.fatigue_rate \in 0..10000
    /\ profile.concentration_level \in 0..10000
    /\ profile.rhythm_variation \in 1000..10000

\* C36: the inactivity monitor starts a click only at the second of two
\* consecutive checks that find the time since the last activity above
\* current_delay; a check that finds recent activity puts trigger_count to 0;
\* the check that starts the click leaves trigger_count at 0, and
\* current_delay is always within [base_delay - 2, base_delay + 2].
C36_SecondConsecutiveCheck ==
    /\ \A k \in 1..Len(checks) :
          LET ran(j) == checks[j].allowed /\ ~checks[j].cal
          IN  /\ checks[k].started
                   => /\ ran(k) /\ checks[k].idle
                      /\ checks[k].pre = 1 /\ checks[k].post = 0
                      /\ \E j \in 1..(k - 1) :
                            /\ ran(j) /\ checks[j].idle /\ ~checks[j].started
                            /\ \A i \in (j + 1)..(k - 1) : ~ran(i)
              /\ (ran(k) /\ ~checks[k].idle) => checks[k].post = 0
              /\ (ran(k) /\ checks[k].idle /\ checks[k].pre = 0)
                   => ~checks[k].started /\ checks[k].post = 1
    /\ current_delay \in 100..180

\* A first check found inactivity, the second one started the click
C36_Witness ==
    /\ Len(checks) = 2
    /\ checks[1].idle /\ ~checks[1].started /\ checks[1].post = 1
    /\ checks[2].idle /\ checks[2].started /\ checks[2].post = 0

\* C39: once every call of _record_click has returned, click_counter and
\* total_clicks equal the number of calls, and total_clicks equals the sum of
\* hourly_distribution and the sum of patterns_used, also when two click
\* threads ran the call at the same time.
C39_CountedExactlyOnce ==
    (\A t \in RecordThreads : record_pc[t] = "idle")
        => /\ click_counter = recorded
           /\ total_clicks = recorded
           /\ total_clicks = SumOver(hourly_distribution, Hours)
           /\ total_clicks = SumOver(patterns_used, DOMAIN patterns_used)

\* C37: on the sequence loud, quiet, then (loud, quiet, quiet) repeated, every
\* loud sample qualifies and finds the cooldown elapsed, trigger_count reaches
\* 1.5 at every loud sample after the first and never 2, no action is fired,
\* and the state of the monitor after a round is the one after the round
\* before, so that this goes on for ever.
C37_CountHoversBelowTwo ==
    /\ fires = <<>>
    /\ in_flight = <<>>
    /\ last_trigger_time = 0
    /\ trigger_count < 4
    /\ \A k \in 1..Len(trace) : trace[k].vol => trace[k].cool
    /\ (iterations >= 1 /\ HoverScript(iterations) = 90)
          => /\ trace[Len(trace)].vol
             /\ trigger_count = IF iterations = 1 THEN 2 ELSE 3
    /\ (iterations >= 14 /\ iterations % 3 = 2)
          => /\ volume_history = <<10, 90, 10, 10, 90, 10, 10, 90, 10, 10>>
             /\ baseline_volume = [num |-> 340, den |-> 10]
             /\ trigger_count = 1

\* The end of the fifth round
C37_Witness ==
    /\ iterations = 17
    /\ trigger_count = 1
    /\ fires = <<>>
    /\ trace[Len(trace) - 2].post = 3

\* C31: cancellation is final: once cancel and an add_sample that overlapped
\* it have both returned, calibration_data and peak_values are empty,
\* is_calibrating is false and no result was delivered after the cancel.
C31_CancelIsFinal ==
    (cancel_pc = "done" /\ sample_pc = "idle")
        => /\ calibration_data = <<>>
           /\ peak_values = <<>>
           /\ ~is_calibrating
           /\ Len(delivered) = cancel_mark

\* C29: while a double-click action started by the volume monitor is running
\* the volume monitor starts no other one.
C29_OneActionAtATime == Len(in_flight) <= 1

\* C22: an iteration of the volume monitor or of the inactivity monitor that
\* begins while the actions are not allowed (paused, disabled, temporary pause
\* remaining, inventory or chat open) starts no action and leaves
\* volume_history, baseline_volume and trigger_count as they are; a click
\* thread already running is not cancelled: it ends only by posting its clicks.
C22_BlockedIterationStartsNothing ==
    [][/\ ( /\ \/ is_completely_disabled
               \/ is_paused
               \/ temp_pause_remaining > 0
               \/ is_inventory_open
               \/ is_chat_open
            /\ iterations' # iterations \/ checks' # checks )
          => UNCHANGED <<volume_history, baseline_volume, trigger_count,
                         in_flight, single_flight>>
       /\ Len(in_flight') < Len(in_flight) => clicks_sent' = clicks_sent + 2
       /\ Len(single_flight') < Len(single_flight)
             => clicks_sent' = clicks_sent + 1]_vars

\* Both monitors have run an iteration that began with the chat open, and the
\* two click threads that were running have posted their clicks
C22_Witness ==
    /\ is_chat_open
    /\ iterations = 1
    /\ Len(log) = 3
    /\ \E k \in 1..Len(checks) : ~checks[k].allowed
    /\ in_flight = <<>>
    /\ single_flight = <<>>
    /\ clicks_sent = 3

\* C23: every background loop survives an exception raised during one of its
\* iterations, also one raised by its callback: here the temporary-pause loop
\* goes on after its pause-end callback raised.
C23_LoopSurvivesException == pause_pc # "dead"

\* C30: once start_temp_pause(15) has run, the actions stay blocked
\* (temp_pause_remaining > 0) until 15 seconds have passed since that start,
\* and the pause end is notified exactly once, at that point, whatever the
\* interleaving with the temporary-pause loop.
C30_BlockedUntilPauseEnds ==
    (pause_call # NoValue /\ key_pc = "idle")
        => /\ now - pause_call < PauseTicks => temp_pause_remaining > 0
           /\ \A k \in 1..Len(notifications) :
                  k = 1 /\ notifications[k] - pause_call >= PauseTicks

----------------------------------------------------------------------------
(* Properties of the calibration result *)

\* finish_calibration has run on the data still held by the calibrator
Finished == ~is_calibrating /\ calibration_data # <<>> /\ delivered # <<>>

LastDelivered == delivered[Len(delivered)]

\* x is an integer nearest to num/den
NearestTo(x, num, den) == 2 * den * x - 2 * num <= den /\ 2 * num - 2 * den * x <= den

\* m is the least element of the sequence s
IsMinOf(m, s) == (\E k \in 1..Len(s) : s[k] = m) /\ (\A k \in 1..Len(s) : m <= s[k])

\* x is an integer nearest to mean(data) + 1.5 * std(data)
NearestToMeanPlusStd(x, data) ==
    LET N == Len(data)
        S == SumSeq(data)
        D == N * SumSq(data) - S * S
        lo == (2 * x - 1) * N - 2 * S
        hi == (2 * x + 1) * N - 2 * S
    IN  /\ lo <= 0 \/ lo * lo <= 9 * D
        /\ hi >= 0 /\ hi * hi >= 9 * D

Clamped(x) == IF x < MinThreshold THEN MinThreshold
              ELSE IF x > MaxThreshold THEN MaxThreshold ELSE x

\* C9: with at least 2 recorded peaks the delivered threshold is
\* round(min(peak_values)*0.85, 1) clamped to [4.0, 9.0], whatever the other
\* samples; with fewer than 2 peaks it is round(mean + 1.5*std, 1) over all the
\* samples, clamped to [4.0, 9.0].
C9_BranchChoice ==
    Finished =>
        IF Len(peak_values) >= 2
        THEN \E m \in 0..100, x \in 0..100 :
                /\ IsMinOf(m, peak_values)
                /\ NearestTo(x, 85 * m, 100)
                /\ LastDelivered = Clamped(x)
        ELSE \E x \in 0..200 :
                /\ NearestToMeanPlusStd(x, calibration_data)
                /\ LastDelivered = Clamped(x)

C9_Witness ==
    /\ Finished
    /\ Len(peak_values) >= 2
    /\ Len(calibration_data) > Len(peak_values)
    /\ LastDelivered = 51

\* C10: every threshold given to the completion callback that is not None
\* lies in [4.0, 9.0].
C10_ThresholdInRange ==
    \A k \in 1..Len(delivered) :
        delivered[k] # NoValue =>
            (MinThreshold <= delivered[k] /\ delivered[k] <= MaxThreshold)

C10_Witness ==
    /\ Finished
    /\ \E k \in 1..Len(delivered) : delivered[k] = MinThreshold
    /\ \E k \in 1..Len(calibration_data) : calibration_data[k] < MinThreshold

----------------------------------------------------------------------------
(* Properties of the calibrator's methods *)

\* The direct calls that are calls of op
CallsOf(op) == {k \in 1..Len(calls) : calls[k].op = op}

\* C11: finish_calibration with no collected samples sets is_calibrating to
\* false and calls the registered callback once, with None; a numeric
\* threshold is delivered only by a call that leaves at least one sample
\* collected.
C11_NoDataGivesNone ==
    /\ \A k \in CallsOf("finish_calibration") :
          calls[k].data = <<>> =>
             /\ ~calls[k].active2
             /\ calls[k].registered => calls[k].completed = <<NoValue>>
             /\ \A j \in 1..Len(calls[k].completed) :
                   calls[k].completed[j] = NoValue
    /\ \A k \in 1..Len(calls) :
          \A j \in 1..Len(calls[k].completed) :
             calls[k].completed[j] # NoValue => calls[k].data2 # <<>>

C11_Witness ==
    /\ \E k \in CallsOf("finish_calibration") :
          /\ calls[k].data = <<>> /\ calls[k].active
          /\ calls[k].completed = <<NoValue>>
    /\ \E k \in 1..Len(calls) :
          calls[k].completed # <<>> /\ calls[k].completed[1] # NoValue

\* C12: between one start_calibration and the next the completion callback is
\* called at most once, for any sequence of add_sample, finish_calibration and
\* cancel calls.
C12_OneResultPerSession ==
    /\ \A k \in 1..Len(calls) : Len(calls[k].completed) <= 1
    /\ \A i \in 1..Len(calls), j \in 1..Len(calls) :
          (i < j /\ calls[i].completed # <<>> /\ calls[j].completed # <<>>)
             => \E m \in (i + 1)..(j - 1) : calls[m].op = "start_calibration"

\* C14: cancel() sets is_calibrating to false, empties calibration_data and
\* peak_values, and does not call the completion callback.
C14_CancelDiscards ==
    \A k \in CallsOf("cancel") :
        /\ ~calls[k].active2
        /\ calls[k].data2 = <<>>
        /\ calls[k].peaks2 = <<>>
        /\ calls[k].completed = <<>>
        /\ calls[k].progress = 0

C14_Witness ==
    \E k \in CallsOf("cancel") :
        /\ calls[k].active /\ calls[k].registered
        /\ calls[k].data # <<>> /\ calls[k].peaks # <<>>
        /\ ~is_calibrating /\ calibration_data = <<>> /\ peak_values = <<>>

\* C15: add_sample called while no calibration is collecting (before any
\* start, after the finish, after a cancel) leaves calibration_data and
\* peak_values unchanged and calls neither the progress callback nor the
\* completion callback.
C15_AddSampleIdleNoOp ==
    \A k \in CallsOf("add_sample") :
        ~calls[k].active =>
            /\ calls[k].data2 = calls[k].data
            /\ calls[k].peaks2 = calls[k].peaks
            /\ ~calls[k].active2
            /\ calls[k].progress = 0
            /\ calls[k].completed = <<>>

C15_Witness ==
    /\ Len(calls) >= 4
    /\ calls[1].op = "add_sample" /\ ~calls[1].active
    /\ calls[2].op = "start_calibration"
    /\ calls[3].op = "add_sample" /\ calls[3].completed # <<>>
    /\ calls[4].op = "add_sample" /\ ~calls[4].active /\ calls[4].data # <<>>

----------------------------------------------------------------------------
(* Properties of the calibration beside the monitors *)

\* C13: is_calibrating is true only while the time since start_time is within
\* calibration_duration, whether or not samples keep arriving.
C13_ActiveOnlyWithinDuration ==
    is_calibrating => now - start_time <= CalibrationDuration

\* C16: a volume-monitor iteration that observes is_calibrating true gives its
\* sample to add_sample only, leaves volume_history, baseline_volume,
\* trigger_count and last_trigger_time unchanged and starts no action; an
\* inactivity-monitor iteration that observes is_calibrating true starts no
\* click.
C16_CalibrationExclusive ==
    [][ /\ (is_calibrating /\ iterations' = iterations + 1)
           => /\ UNCHANGED <<volume_history, baseline_volume, trigger_count,
                             last_trigger_time, in_flight, single_flight, fires>>
              /\ log' # log
                 => calibration_data' = Append(calibration_data, log'[Len(log')].v)
        /\ (is_calibrating /\ Len(checks') > Len(checks))
           => UNCHANGED <<in_flight, single_flight>>
      ]_vars

C16_Witness ==
    /\ log # <<>>
    /\ log[Len(log)].cal
    /\ log[Len(log)].v > threshold
    /\ trigger_count = 2
    /\ fires = <<>>
    /\ \E k \in 1..Len(checks) :
          /\ checks[k].cal /\ checks[k].allowed /\ checks[k].idle
          /\ checks[k].pre = 1
          /\ ~checks[k].started

====
